---------------------------- MODULE Spec2Model ----------------------------
(***************************************************************************)
(* A model of api-schema-differentiator: schema inference from JSON-like   *)
(* values (core/inferrer.ts), multi-sample merging, the schema diff engine *)
(* (core/differ.ts) and the SchemaGuard learn/check cycle over a snapshot  *)
(* store.                                                                  *)
(*                                                                         *)
(* Representation.  A SchemaNode is a record with every field of the       *)
(* TypeScript interface.  Optional fields that the code only ever reads    *)
(* through `x || default` (properties, required) are sequences, empty when *)
(* absent; fields whose absence the code tests (items, oneOf) are          *)
(* sequences of length 0 (absent) or 1 (present); format and homogeneous   *)
(* carry the string "undefined" when absent; sampleCount is 0 when absent, *)
(* which `s.sampleCount || 1` treats exactly like an absent field.         *)
(* Object properties are sequences of [key, node] in insertion order, the  *)
(* order Object.keys yields for non-numeric keys.                          *)
(***************************************************************************)
EXTENDS Integers, Sequences, FiniteSets, TLC

VARIABLES a, b, seenA, seenB, last, changes, diffed, compatibilityScore,
          store, options, report, fed, learnedOnly, call,
          callsLeft, inflight

engineVars == <<a, b, seenA, seenB, last, changes, diffed, compatibilityScore>>

guardVars == <<store, options, report, fed, learnedOnly, call, callsLeft, inflight>>

vars == <<a, b, seenA, seenB, last, changes, diffed, compatibilityScore,
          store, options, report, fed, learnedOnly, call, callsLeft, inflight>>

RECURSIVE inferSchema(_)
RECURSIVE mergeSchemas(_, _)
RECURSIVE createUnionLoop(_, _, _, _)
RECURSIVE reduceMerge(_, _, _)
RECURSIVE sumSamples(_, _)
RECURSIVE typeLabel(_)
RECURSIVE joinLabels(_, _)
RECURSIVE levenshteinCells(_, _, _, _, _)
RECURSIVE levenshteinRows(_, _, _, _)
RECURSIVE detectRenamesLoop(_, _, _, _, _, _)
RECURSIVE diffSchemas(_, _, _)
RECURSIVE diffShared(_, _, _, _)
RECURSIVE FlattenSeqs(_)
RECURSIVE Observed(_, _)
RECURSIVE AllNodes(_)
RECURSIVE NodesAt(_, _)
RECURSIVE Canon(_, _)
RECURSIVE SameShape(_, _)
RECURSIVE SubPaths(_, _)
RECURSIVE replaceEach(_, _, _)
RECURSIVE collapseRuns(_, _, _)
RECURSIVE stringifyNode(_)
RECURSIVE parseNode(_)
RECURSIVE scoreFrom(_, _, _)
RECURSIVE sortByVersion(_)
RECURSIVE ComparedPairs(_, _, _)

---------------------------------------------------------------------------
(* Generic helpers *)

Range(s) == {s[i] : i \in 1..Len(s)}

Undefined == "undefined"

None == <<>>

Some(x) == <<x>>

---------------------------------------------------------------------------
(* JSON-like values.  k is the JavaScript kind of the value; s is the text *)
(* of a string; n is a number in tenths (15 is 1.5); elems are the array   *)
(* elements; fields are the object's entries in key order.                 *)

Val(k, s, n, elems, fields) ==
  [k |-> k, s |-> s, n |-> n, elems |-> elems, fields |-> fields]

VNull == Val("null", "", 0, <<>>, <<>>)

VUndef == Val("undefined", "", 0, <<>>, <<>>)

VStr(s) == Val("string", s, 0, <<>>, <<>>)

VNum(n) == Val("number", "", n, <<>>, <<>>)

VBool == Val("boolean", "", 0, <<>>, <<>>)

VArr(elems) == Val("array", "", 0, elems, <<>>)

VObj(fields) == Val("object", "", 0, <<>>, fields)

Field(key, val) == [key |-> key, val |-> val]

---------------------------------------------------------------------------
(* Schema nodes *)

Node(type, nullable, format, properties, required, items, homogeneous, oneOf, sampleCount) ==
  [type |-> type, nullable |-> nullable, format |-> format,
   properties |-> properties, required |-> required, items |-> items,
   homogeneous |-> homogeneous, oneOf |-> oneOf, sampleCount |-> sampleCount]

Prop(key, node) == [key |-> key, node |-> node]

PropKeys(props) == [i \in 1..Len(props) |-> props[i].key]

HasKey(props, key) == \E i \in 1..Len(props) : props[i].key = key

PropOf(props, key) == props[CHOOSE i \in 1..Len(props) : props[i].key = key].node

(* s.sampleCount || 1 *)
SampleCountOr1(s) == IF s.sampleCount = 0 THEN 1 ELSE s.sampleCount

---------------------------------------------------------------------------
(* Format detection.  The regular expressions of FORMAT_PATTERNS are       *)
(* represented by the set of sample strings each one accepts; the order of *)
(* the sequence is the order of the source, and the first match wins.      *)

SampleStrings == {"hello", "a@b.co", "2024-01-15"}

FORMAT_PATTERNS ==
  << [format |-> "iso-datetime", accepts |-> {}],
     [format |-> "iso-date",     accepts |-> {"2024-01-15"}],
     [format |-> "uuid",         accepts |-> {}],
     [format |-> "email",        accepts |-> {"a@b.co"}],
     [format |-> "url",          accepts |-> {}],
     [format |-> "ipv4",         accepts |-> {}],
     [format |-> "ipv6",         accepts |-> {}] >>

detectType(value) ==
  CASE value.k = "null"      -> "null"
    [] value.k = "undefined" -> "unknown"
    [] value.k = "array"     -> "array"
    [] value.k = "string"    -> "string"
    [] value.k = "number"    -> "number"
    [] value.k = "boolean"   -> "boolean"
    [] value.k = "object"    -> "object"
    [] OTHER                 -> "unknown"

detectFormat(s) ==
  LET hits == {i \in 1..Len(FORMAT_PATTERNS) : s \in FORMAT_PATTERNS[i].accepts}
  IN IF hits = {} THEN "null"
     ELSE FORMAT_PATTERNS[CHOOSE i \in hits : \A j \in hits : i <= j].format

detectNumberFormat(n) == IF n % 10 = 0 THEN "integer" ELSE "float"

---------------------------------------------------------------------------
(* Schema merging *)

(* { type: 'unknown', nullable: false } : the item schema of an empty array *)
UnknownItem == Node("unknown", FALSE, Undefined, <<>>, <<>>, None, Undefined, None, 0)

(* A variant of the format rule that always forgets the format *)
mergeFormatForgetful(x, y) == "null"

(* a.format === b.format ? a.format : null *)
mergeFormat(x, y) == IF x.format = y.format THEN x.format ELSE "null"

(* A variant of mergeObjectSchemas that keeps a key required when either   *)
(* input requires it                                                       *)
mergeObjectSchemasEither(x, y, sampleCount) ==
  LET aProps == x.properties
      bProps == y.properties
      allKeys == PropKeys(aProps) \o
                 SelectSeq(PropKeys(bProps), LAMBDA key : ~HasKey(aProps, key))
      merged(key) ==
        IF HasKey(aProps, key) /\ HasKey(bProps, key)
          THEN mergeSchemas(PropOf(aProps, key), PropOf(bProps, key))
          ELSE IF HasKey(aProps, key) THEN PropOf(aProps, key)
          ELSE PropOf(bProps, key)
      properties == [i \in 1..Len(allKeys) |-> Prop(allKeys[i], merged(allKeys[i]))]
      required == SelectSeq(allKeys, LAMBDA key :
                    key \in Range(x.required) \/ key \in Range(y.required))
  IN Node("object", x.nullable \/ y.nullable, Undefined, properties, required,
          None, Undefined, None, sampleCount)

mergeObjectSchemas(x, y, sampleCount) ==
  LET aProps == x.properties
      bProps == y.properties
      aRequired == Range(x.required)
      bRequired == Range(y.required)
      allKeys == PropKeys(aProps) \o
                 SelectSeq(PropKeys(bProps), LAMBDA key : ~HasKey(aProps, key))
      merged(key) ==
        IF HasKey(aProps, key) /\ HasKey(bProps, key)
          THEN mergeSchemas(PropOf(aProps, key), PropOf(bProps, key))
          ELSE IF HasKey(aProps, key) THEN PropOf(aProps, key)
          ELSE PropOf(bProps, key)
      properties == [i \in 1..Len(allKeys) |-> Prop(allKeys[i], merged(allKeys[i]))]
      required == SelectSeq(allKeys, LAMBDA key :
                    /\ HasKey(aProps, key) /\ HasKey(bProps, key)
                    /\ key \in aRequired /\ key \in bRequired)
  IN Node("object", x.nullable \/ y.nullable, Undefined, properties, required,
          None, Undefined, None, sampleCount)

(* The loop of createUnionSchema over schemas[i..]: typeMap is the Map in  *)
(* insertion order, as a sequence of [key, node].                          *)
createUnionLoop(schemas, i, typeMap, nullable) ==
  IF i > Len(schemas) THEN [typeMap |-> typeMap, nullable |-> nullable]
  ELSE LET schema == schemas[i]
           key == schema.type \o
                  (IF schema.format \notin {Undefined, "null"}
                     THEN ":" \o schema.format ELSE "")
       IN IF schema.type = "null"
            THEN createUnionLoop(schemas, i + 1, typeMap, TRUE)
          ELSE IF HasKey(typeMap, key)
            THEN createUnionLoop(schemas, i + 1,
                   [j \in 1..Len(typeMap) |->
                      IF typeMap[j].key = key
                        THEN Prop(key, mergeSchemas(typeMap[j].node, schema))
                        ELSE typeMap[j]],
                   nullable)
          ELSE createUnionLoop(schemas, i + 1, Append(typeMap, Prop(key, schema)), nullable)

sumSamples(schemas, i) ==
  IF i > Len(schemas) THEN 0
  ELSE SampleCountOr1(schemas[i]) + sumSamples(schemas, i + 1)

(* A variant of createUnionSchema that builds a union even from a single   *)
(* alternative                                                             *)
createUnionSchemaAlways(schemas) ==
  LET r == createUnionLoop(schemas, 1, <<>>, FALSE)
      uniqueSchemas == [j \in 1..Len(r.typeMap) |-> r.typeMap[j].node]
  IN Node("unknown", r.nullable, Undefined, <<>>, <<>>, None, Undefined,
          Some(uniqueSchemas), sumSamples(schemas, 1))

createUnionSchema(schemas) ==
  LET r == createUnionLoop(schemas, 1, <<>>, FALSE)
      uniqueSchemas == [j \in 1..Len(r.typeMap) |-> r.typeMap[j].node]
  IN IF Len(uniqueSchemas) = 1
       THEN [uniqueSchemas[1] EXCEPT !.nullable = r.nullable]
       ELSE Node("unknown", r.nullable, Undefined, <<>>, <<>>, None, Undefined,
                 Some(uniqueSchemas), sumSamples(schemas, 1))

mergeSchemas(x, y) ==
  LET sampleCount == SampleCountOr1(x) + SampleCountOr1(y)
      nullable == x.nullable \/ y.nullable
  IN CASE x.type = "null" /\ y.type = "null" ->
            Node("null", TRUE, Undefined, <<>>, <<>>, None, Undefined, None, sampleCount)
       [] x.type = "null" /\ y.type # "null" ->
            [y EXCEPT !.nullable = TRUE, !.sampleCount = sampleCount]
       [] x.type # "null" /\ y.type = "null" ->
            [x EXCEPT !.nullable = TRUE, !.sampleCount = sampleCount]
       [] OTHER ->
            IF x.type = "unknown" THEN [y EXCEPT !.sampleCount = sampleCount]
            ELSE IF y.type = "unknown" THEN [x EXCEPT !.sampleCount = sampleCount]
            ELSE IF x.type # y.type THEN createUnionSchema(<<x, y>>)
            ELSE CASE x.type \in {"string", "number", "boolean"} ->
                        Node(x.type, nullable, mergeFormat(x, y),
                             <<>>, <<>>, None, Undefined, None, sampleCount)
                   [] x.type = "array" ->
                        LET items ==
                              IF x.items # None /\ y.items # None
                                THEN mergeSchemas(x.items[1], y.items[1])
                              ELSE IF x.items # None THEN x.items[1]
                              ELSE IF y.items # None THEN y.items[1]
                              ELSE UnknownItem
                            homogeneous ==
                              /\ (x.homogeneous = Undefined \/ x.homogeneous = "true")
                              /\ (y.homogeneous = Undefined \/ y.homogeneous = "true")
                              /\ items.type # "unknown"
                        IN Node("array", nullable, Undefined, <<>>, <<>>, Some(items),
                                IF homogeneous THEN "true" ELSE "false", None, sampleCount)
                   [] x.type = "object" -> mergeObjectSchemas(x, y, sampleCount)
                   [] OTHER ->
                        Node(x.type, nullable, Undefined, <<>>, <<>>, None, Undefined,
                             None, sampleCount)

---------------------------------------------------------------------------
(* Schema inference *)

(* itemSchemas.reduce((merged, schema) => mergeSchemas(merged, schema)):   *)
(* no initial value, so the fold starts from the first element.            *)
reduceMerge(merged, schemas, i) ==
  IF i > Len(schemas) THEN merged
  ELSE reduceMerge(mergeSchemas(merged, schemas[i]), schemas, i + 1)

inferArraySchema(arr) ==
  IF Len(arr) = 0
    THEN Node("array", FALSE, Undefined, <<>>, <<>>, Some(UnknownItem), "true", None, 1)
    ELSE LET itemSchemas == [i \in 1..Len(arr) |-> inferSchema(arr[i])]
             types == {itemSchemas[i].type : i \in 1..Len(arr)}
             homogeneous == Cardinality(types) = 1
             mergedItems == IF homogeneous
                              THEN reduceMerge(itemSchemas[1], itemSchemas, 2)
                              ELSE createUnionSchema(itemSchemas)
         IN Node("array", FALSE, Undefined, <<>>, <<>>, Some(mergedItems),
                 IF homogeneous THEN "true" ELSE "false", None, 1)

(* A variant of inferObjectSchema that gives no property to a null-valued  *)
(* field and still lists it as required                                    *)
inferObjectSchemaSkipNull(obj) ==
  LET keys == [i \in 1..Len(obj) |-> obj[i].key]
      kept == SelectSeq(obj, LAMBDA f : f.val.k # "null")
      properties == [i \in 1..Len(kept) |-> Prop(kept[i].key, inferSchema(kept[i].val))]
  IN Node("object", FALSE, Undefined, properties, keys, None, Undefined, None, 1)

inferObjectSchema(obj) ==
  LET keys == [i \in 1..Len(obj) |-> obj[i].key]
      properties == [i \in 1..Len(obj) |-> Prop(obj[i].key, inferSchema(obj[i].val))]
  IN Node("object", FALSE, Undefined, properties, keys, None, Undefined, None, 1)

inferSchema(value) ==
  LET type == detectType(value)
  IN CASE type = "null" ->
            Node("null", TRUE, Undefined, <<>>, <<>>, None, Undefined, None, 1)
       [] type = "string" ->
            Node("string", FALSE, detectFormat(value.s), <<>>, <<>>, None, Undefined, None, 1)
       [] type = "number" ->
            Node("number", FALSE, detectNumberFormat(value.n), <<>>, <<>>, None,
                 Undefined, None, 1)
       [] type = "boolean" ->
            Node("boolean", FALSE, Undefined, <<>>, <<>>, None, Undefined, None, 1)
       [] type = "array" -> inferArraySchema(value.elems)
       [] type = "object" -> inferObjectSchema(value.fields)
       [] OTHER ->
            Node("unknown", FALSE, Undefined, <<>>, <<>>, None, Undefined, None, 1)

---------------------------------------------------------------------------
(* Field names.  TLC cannot index into a string, so the characters of each *)
(* field name the model uses are tabulated here.                           *)

NameChars ==
  [ id        |-> <<"i", "d">>,
    ids       |-> <<"i", "d", "s">>,
    idx       |-> <<"i", "d", "x">>,
    idses     |-> <<"i", "d", "s", "e", "s">>,
    tag       |-> <<"t", "a", "g">>,
    extra     |-> <<"e", "x", "t", "r", "a">>,
    item      |-> <<"i", "t", "e", "m">>,
    code      |-> <<"c", "o", "d", "e">>,
    name      |-> <<"n", "a", "m", "e">>,
    email     |-> <<"e", "m", "a", "i", "l">>,
    userName  |-> <<"u", "s", "e", "r", "N", "a", "m", "e">>,
    user_name |-> <<"u", "s", "e", "r", "_", "n", "a", "m", "e">>,
    user_game |-> <<"u", "s", "e", "r", "_", "g", "a", "m", "e">> ]

Chars(s) == NameChars[s]

UpperCase == <<"A", "B", "C", "D", "E", "F", "G", "H", "I", "J", "K", "L", "M",
               "N", "O", "P", "Q", "R", "S", "T", "U", "V", "W", "X", "Y", "Z">>

LowerCase == <<"a", "b", "c", "d", "e", "f", "g", "h", "i", "j", "k", "l", "m",
               "n", "o", "p", "q", "r", "s", "t", "u", "v", "w", "x", "y", "z">>

IsUpper(c) == c \in Range(UpperCase)

IsLower(c) == c \in Range(LowerCase)

toLowerCase(cs) ==
  [i \in 1..Len(cs) |->
     IF IsUpper(cs[i]) THEN LowerCase[CHOOSE j \in 1..26 : UpperCase[j] = cs[i]]
     ELSE cs[i]]

FlattenSeqs(ss) == IF ss = <<>> THEN <<>> ELSE Head(ss) \o FlattenSeqs(Tail(ss))

(* s.replace(/([a-z])([A-Z])/g, '$1_$2').toLowerCase().replace(/[_-]/g, '') *)
normalize(cs) ==
  LET split == FlattenSeqs([i \in 1..Len(cs) |->
                 IF i < Len(cs) /\ IsLower(cs[i]) /\ IsUpper(cs[i + 1])
                   THEN <<cs[i], "_">> ELSE <<cs[i]>>])
  IN SelectSeq(toLowerCase(split), LAMBDA c : c \notin {"_", "-"})

Min3(p, q, r) == IF p <= q /\ p <= r THEN p ELSE IF q <= r THEN q ELSE r

(* Row i of the table dp of levenshtein, filled from column 1 on: prev is  *)
(* row i - 1 and row the columns 0 .. Len(row) - 1 filled so far.          *)
levenshteinCells(s, t, i, prev, row) ==
  IF Len(row) = Len(t) + 1 THEN row
  ELSE LET j == Len(row)
       IN levenshteinCells(s, t, i, prev,
            Append(row, IF s[i] = t[j] THEN prev[j]
                        ELSE 1 + Min3(prev[j + 1], row[j], prev[j])))

(* The rows i .. Len(s) of dp; the result is the last row *)
levenshteinRows(s, t, i, prev) ==
  IF i > Len(s) THEN prev
  ELSE levenshteinRows(s, t, i + 1, levenshteinCells(s, t, i, prev, <<i>>))

(* dp[m][n], with dp[0][j] = j and dp[i][0] = i *)
levenshtein(s, t) ==
  levenshteinRows(s, t, 1, [j \in 1..(Len(t) + 1) |-> j - 1])[Len(t) + 1]

ShortNameLen == 8

MaxEditDistance == 2

(* A similarity test that measures the edit distance of names of any       *)
(* length                                                                  *)
isSimilarNameAnyLength(p, q) ==
  LET lower_a == toLowerCase(Chars(p))
      lower_b == toLowerCase(Chars(q))
  IN \/ Append(lower_a, "s") = lower_b
     \/ Append(lower_b, "s") = lower_a
     \/ lower_a \o <<"e", "s">> = lower_b
     \/ lower_b \o <<"e", "s">> = lower_a
     \/ normalize(Chars(p)) = normalize(Chars(q))
     \/ levenshtein(lower_a, lower_b) <= MaxEditDistance

isSimilarName(p, q) ==
  LET lower_a == toLowerCase(Chars(p))
      lower_b == toLowerCase(Chars(q))
  IN \/ Append(lower_a, "s") = lower_b
     \/ Append(lower_b, "s") = lower_a
     \/ lower_a \o <<"e", "s">> = lower_b
     \/ lower_b \o <<"e", "s">> = lower_a
     \/ normalize(Chars(p)) = normalize(Chars(q))
     \/ /\ Len(Chars(p)) <= ShortNameLen
        /\ Len(Chars(q)) <= ShortNameLen
        /\ levenshtein(lower_a, lower_b) <= MaxEditDistance

---------------------------------------------------------------------------
(* Schema diff *)

SEVERITY_MAP ==
  [ field_added         |-> "info",
    field_removed       |-> "breaking",
    type_changed        |-> "breaking",
    nullable_changed    |-> "warning",
    array_items_changed |-> "warning",
    nesting_changed     |-> "breaking",
    field_renamed       |-> "warning",
    format_changed      |-> "info",
    required_changed    |-> "warning",
    homogeneity_changed |-> "warning" ]

(* A variant of change that gives every change the severity warning *)
changeAsWarning(type, path, message, before, after) ==
  [type |-> type, severity |-> "warning", path |-> path,
   message |-> message, before |-> before, after |-> after]

change(type, path, message, before, after) ==
  [type |-> type, severity |-> SEVERITY_MAP[type], path |-> path,
   message |-> message, before |-> before, after |-> after]

joinLabels(nodes, i) ==
  IF i > Len(nodes) THEN ""
  ELSE (IF i > 1 THEN ", " ELSE "") \o typeLabel(nodes[i]) \o joinLabels(nodes, i + 1)

typeLabel(node) ==
  IF node.oneOf # None THEN "oneOf(" \o joinLabels(node.oneOf[1], 1) \o ")"
  ELSE node.type
       \o (IF node.format \notin {Undefined, "null"} THEN "<" \o node.format \o ">" ELSE "")
       \o (IF node.type = "array" /\ node.items # None
             THEN "<" \o typeLabel(node.items[1]) \o ">" ELSE "")

(* path || '(root)' *)
PathOrRoot(path) == IF path = "" THEN "(root)" ELSE path

(* path ? `${path}.${key}` : key *)
FieldPath(path, key) == IF path = "" THEN key ELSE path \o "." \o key

(* A variant of the loops of detectRenames that never marks an added key   *)
(* as taken                                                                *)
detectRenamesLoopShared(removed, added, basePath, i, renames, matchedAdded) ==
  IF i > Len(removed) THEN renames
  ELSE LET rKey == removed[i].key
           hits == {j \in 1..Len(added) :
                      /\ removed[i].node.type = added[j].node.type
                      /\ isSimilarName(rKey, added[j].key)}
       IN IF hits = {}
            THEN detectRenamesLoop(removed, added, basePath, i + 1, renames, matchedAdded)
            ELSE LET aKey == added[CHOOSE j \in hits : \A h \in hits : j <= h].key
                 IN detectRenamesLoop(removed, added, basePath, i + 1,
                      Append(renames,
                        change("field_renamed", FieldPath(basePath, rKey),
                               "Field possibly renamed: \"" \o rKey \o "\" -> \"" \o aKey \o "\"",
                               rKey, aKey)),
                      matchedAdded)

(* A variant of the loops of detectRenames that takes the last matching    *)
(* added key instead of the first                                          *)
detectRenamesLoopLast(removed, added, basePath, i, renames, matchedAdded) ==
  IF i > Len(removed) THEN renames
  ELSE LET rKey == removed[i].key
           hits == {j \in 1..Len(added) :
                      /\ added[j].key \notin matchedAdded
                      /\ removed[i].node.type = added[j].node.type
                      /\ isSimilarName(rKey, added[j].key)}
       IN IF hits = {}
            THEN detectRenamesLoop(removed, added, basePath, i + 1, renames, matchedAdded)
            ELSE LET aKey == added[CHOOSE j \in hits : \A h \in hits : j >= h].key
                 IN detectRenamesLoop(removed, added, basePath, i + 1,
                      Append(renames,
                        change("field_renamed", FieldPath(basePath, rKey),
                               "Field possibly renamed: \"" \o rKey \o "\" -> \"" \o aKey \o "\"",
                               rKey, aKey)),
                      matchedAdded \cup {aKey})

(* The loops of detectRenames from removed[i] on: removed and added are    *)
(* the Maps in insertion order, matchedAdded the added keys already taken. *)
detectRenamesLoop(removed, added, basePath, i, renames, matchedAdded) ==
  IF i > Len(removed) THEN renames
  ELSE LET rKey == removed[i].key
           rSchema == removed[i].node
           hits == {j \in 1..Len(added) :
                      /\ added[j].key \notin matchedAdded
                      /\ rSchema.type = added[j].node.type
                      /\ isSimilarName(rKey, added[j].key)}
       IN IF hits = {}
            THEN detectRenamesLoop(removed, added, basePath, i + 1, renames, matchedAdded)
            ELSE LET aKey == added[CHOOSE j \in hits : \A h \in hits : j <= h].key
                 IN detectRenamesLoop(removed, added, basePath, i + 1,
                      Append(renames,
                        change("field_renamed", FieldPath(basePath, rKey),
                               "Field possibly renamed: \"" \o rKey \o "\" -> \"" \o aKey \o "\"",
                               rKey, aKey)),
                      matchedAdded \cup {aKey})

detectRenames(removed, added, basePath) ==
  detectRenamesLoop(removed, added, basePath, 1, <<>>, {})

NullableLabel(n) == IF n THEN "nullable" ELSE "non-null"

(* format || 'none' *)
FormatLabel(f) == IF f \in {Undefined, "null"} THEN "none" ELSE f

HomogeneousLabel(h) == IF h = "true" THEN "homogeneous" ELSE "mixed"

(* A variant of the type test that calls every difference type_changed *)
diffTypeFlat(before, after, path) ==
  IF before.type = after.type THEN <<>>
  ELSE << change("type_changed", PathOrRoot(path),
                 "Type changed at \"" \o PathOrRoot(path) \o "\" ("
                   \o typeLabel(before) \o " -> " \o typeLabel(after) \o ")",
                 typeLabel(before), typeLabel(after)) >>

(* The changes of the type test: non-empty exactly when the types differ *)
diffType(before, after, path) ==
  IF before.type = after.type THEN <<>>
  ELSE IF (before.type = "object" /\ after.type # "object")
          \/ (before.type # "object" /\ after.type = "object")
    THEN << change("nesting_changed", PathOrRoot(path),
                   "Nesting changed at \"" \o PathOrRoot(path) \o "\" ("
                     \o typeLabel(before) \o " -> " \o typeLabel(after) \o ")",
                   typeLabel(before), typeLabel(after)) >>
    ELSE << change("type_changed", PathOrRoot(path),
                   "Type changed at \"" \o PathOrRoot(path) \o "\" ("
                     \o typeLabel(before) \o " -> " \o typeLabel(after) \o ")",
                   typeLabel(before), typeLabel(after)) >>

(* A variant of the nullable test that reports every nullable node *)
diffNullableEager(before, after, path) ==
  IF ~after.nullable THEN <<>>
  ELSE << change("nullable_changed", PathOrRoot(path),
                 "Nullable changed at \"" \o PathOrRoot(path) \o "\"",
                 NullableLabel(before.nullable), NullableLabel(after.nullable)) >>

diffNullable(before, after, path) ==
  IF before.nullable = after.nullable THEN <<>>
  ELSE << change("nullable_changed", PathOrRoot(path),
                 "Nullable changed at \"" \o PathOrRoot(path) \o "\" ("
                   \o NullableLabel(before.nullable) \o " -> "
                   \o NullableLabel(after.nullable) \o ")",
                 NullableLabel(before.nullable), NullableLabel(after.nullable)) >>

diffFormat(before, after, path) ==
  IF before.format = after.format THEN <<>>
  ELSE << change("format_changed", PathOrRoot(path),
                 "Format changed at \"" \o PathOrRoot(path) \o "\" ("
                   \o FormatLabel(before.format) \o " -> "
                   \o FormatLabel(after.format) \o ")",
                 FormatLabel(before.format), FormatLabel(after.format)) >>

diffShared(before, after, path, i) ==
  IF i > Len(before.properties) THEN <<>>
  ELSE LET key == before.properties[i].key
       IN (IF HasKey(after.properties, key)
             THEN diffSchemas(before.properties[i].node, PropOf(after.properties, key),
                              FieldPath(path, key))
             ELSE <<>>)
          \o diffShared(before, after, path, i + 1)

diffObject(before, after, path) ==
  LET beforeProps == before.properties
      afterProps == after.properties
      removedFields == SelectSeq(beforeProps, LAMBDA p : ~HasKey(afterProps, p.key))
      addedFields == SelectSeq(afterProps, LAMBDA p : ~HasKey(beforeProps, p.key))
      renames == detectRenames(removedFields, addedFields, path)
      renamedBefore == {renames[i].before : i \in 1..Len(renames)}
      renamedAfter == {renames[i].after : i \in 1..Len(renames)}
      remainingRemoved == SelectSeq(removedFields, LAMBDA p : p.key \notin renamedBefore)
      remainingAdded == SelectSeq(addedFields, LAMBDA p : p.key \notin renamedAfter)
      removals == [i \in 1..Len(remainingRemoved) |->
                     change("field_removed", FieldPath(path, remainingRemoved[i].key),
                            "Field removed: \"" \o FieldPath(path, remainingRemoved[i].key)
                              \o "\" (was: " \o typeLabel(remainingRemoved[i].node) \o ")",
                            typeLabel(remainingRemoved[i].node), Undefined)]
      additions == [i \in 1..Len(remainingAdded) |->
                      change("field_added", FieldPath(path, remainingAdded[i].key),
                             "Field added: \"" \o FieldPath(path, remainingAdded[i].key)
                               \o "\" (" \o typeLabel(remainingAdded[i].node) \o ")",
                             Undefined, typeLabel(remainingAdded[i].node))]
      beforeRequired == Range(before.required)
      afterRequired == Range(after.required)
      nowOptional == SelectSeq(before.required, LAMBDA key :
                       HasKey(afterProps, key) /\ key \notin afterRequired)
      nowRequired == SelectSeq(after.required, LAMBDA key :
                       HasKey(beforeProps, key) /\ key \notin beforeRequired)
      toOptional == [i \in 1..Len(nowOptional) |->
                       change("required_changed", FieldPath(path, nowOptional[i]),
                              "Field \"" \o FieldPath(path, nowOptional[i])
                                \o "\" changed from required to optional",
                              "required", "optional")]
      toRequired == [i \in 1..Len(nowRequired) |->
                       change("required_changed", FieldPath(path, nowRequired[i]),
                              "Field \"" \o FieldPath(path, nowRequired[i])
                                \o "\" changed from optional to required",
                              "optional", "required")]
  IN renames \o removals \o additions \o toOptional \o toRequired
       \o diffShared(before, after, path, 1)

diffArray(before, after, path) ==
  LET itemChanges ==
        IF before.items # None /\ after.items # None
          THEN diffSchemas(before.items[1], after.items[1],
                           IF path = "" THEN "[]" ELSE path \o "[]")
          ELSE <<>>
      hasTypeChange == \E i \in 1..Len(itemChanges) :
                         itemChanges[i].type \in {"type_changed", "nesting_changed"}
      items ==
        IF hasTypeChange
          THEN << change("array_items_changed", PathOrRoot(path),
                         "Array items changed at \"" \o PathOrRoot(path) \o "\" ("
                           \o typeLabel(before.items[1]) \o " -> "
                           \o typeLabel(after.items[1]) \o ")",
                         typeLabel(before.items[1]), typeLabel(after.items[1])) >>
          ELSE itemChanges
      homogeneity ==
        IF /\ before.homogeneous # Undefined
           /\ after.homogeneous # Undefined
           /\ before.homogeneous # after.homogeneous
          THEN << change("homogeneity_changed", PathOrRoot(path),
                         "Array homogeneity changed at \"" \o PathOrRoot(path) \o "\" ("
                           \o HomogeneousLabel(before.homogeneous) \o " -> "
                           \o HomogeneousLabel(after.homogeneous) \o ")",
                         HomogeneousLabel(before.homogeneous),
                         HomogeneousLabel(after.homogeneous)) >>
          ELSE <<>>
  IN items \o homogeneity

(* A variant of diffSchemas that tests the format before the nullable flag *)
diffSchemasFormatFirst(before, after, path) ==
  IF before.type # after.type THEN diffType(before, after, path)
  ELSE diffFormat(before, after, path)
       \o diffNullable(before, after, path)
       \o (IF before.type = "object" THEN diffObject(before, after, path) ELSE <<>>)
       \o (IF before.type = "array" THEN diffArray(before, after, path) ELSE <<>>)

diffSchemas(before, after, path) ==
  IF before.type # after.type THEN diffType(before, after, path)
  ELSE diffNullable(before, after, path)
       \o diffFormat(before, after, path)
       \o (IF before.type = "object" THEN diffObject(before, after, path) ELSE <<>>)
       \o (IF before.type = "array" THEN diffArray(before, after, path) ELSE <<>>)

---------------------------------------------------------------------------
(* The samples the model feeds to the engine *)

MaxSamples == 2

Scalars ==
  {VNull, VUndef, VStr("hello"), VStr("a@b.co"), VNum(10), VNum(15), VBool}

Arrays ==
  { VArr(<<>>),
    VArr(<<VStr("hello")>>),
    VArr(<<VNum(10), VStr("hello")>>),
    VArr(<<VNull, VNum(10)>>),
    VArr(<<VStr("hello"), VBool>>),
    VArr(<<VObj(<<Field("id", VNum(10))>>)>>),
    VArr(<<VObj(<<Field("id", VStr("hello"))>>)>>) }

Objects ==
  { VObj(<<>>),
    VObj(<<Field("id", VNum(10))>>),
    VObj(<<Field("id", VStr("hello"))>>),
    VObj(<<Field("id", VNum(10)), Field("name", VStr("hello"))>>),
    VObj(<<Field("name", VNull), Field("id", VNum(10))>>),
    VObj(<<Field("id", VArr(<<>>))>>),
    VObj(<<Field("id", VObj(<<Field("name", VNum(10))>>))>>) }

Values == Scalars \cup Arrays \cup Objects

(* What a sample shows: the kind found at each position.  A position is a  *)
(* sequence of field names and "[]" steps, <<>> being the root.            *)
Observed(value, pos) ==
  {<<pos, detectType(value)>>}
    \cup UNION {Observed(value.elems[i], Append(pos, "[]")) : i \in 1..Len(value.elems)}
    \cup UNION {Observed(value.fields[i].val, Append(pos, value.fields[i].key)) :
                  i \in 1..Len(value.fields)}

---------------------------------------------------------------------------
(* The file store (store/file-store.ts).  The file system below baseDir is *)
(* a function from directory names to directories; a directory is a flag   *)
(* saying whether it exists and the set of its files, each a name and the  *)
(* JSON document written to it.  Directory names are sequences of          *)
(* characters, so that sanitizeKey works on the characters of the key.     *)
(* A snapshot's timestamp and metadata are written and read back as they   *)
(* are and take no part in any decision; they are not represented.         *)

KeyChars ==
  ("users" :> <<"u", "s", "e", "r", "s">>)
    @@ ("GET /users" :> <<"G", "E", "T", " ", "/", "u", "s", "e", "r", "s">>)
    @@ ("GET users" :> <<"G", "E", "T", " ", "u", "s", "e", "r", "s">>)

(* The keys a guard is called with, and the keys snapshots are saved under *)
(* directly.                                                               *)
GuardKeys == {"users", "GET /users"}

StoreKeys == {"GET /users", "GET users"}

KeyAlphabet == UNION {Range(KeyChars[key]) : key \in DOMAIN KeyChars}

Digits == <<"0", "1", "2", "3", "4", "5", "6", "7", "8", "9">>

(* [a-zA-Z0-9_\-./] *)
IsDirChar(c) ==
  IsUpper(c) \/ IsLower(c) \/ c \in Range(Digits) \/ c \in {"_", "-", ".", "/"}

(* \s *)
Whitespace == {" ", "\t", "\n", "\r"}

(* cs.replace(/[matching]/g, replacement) *)
replaceEach(cs, matching, replacement) ==
  IF cs = <<>> THEN <<>>
  ELSE (IF Head(cs) \in matching THEN replacement ELSE <<Head(cs)>>)
         \o replaceEach(Tail(cs), matching, replacement)

(* cs.replace(/[matching]+/g, replacement) *)
collapseRuns(cs, matching, replacement) ==
  IF cs = <<>> THEN <<>>
  ELSE IF Head(cs) \notin matching
    THEN <<Head(cs)>> \o collapseRuns(Tail(cs), matching, replacement)
  ELSE IF Len(cs) > 1 /\ cs[2] \in matching
    THEN collapseRuns(Tail(cs), matching, replacement)
  ELSE replacement \o collapseRuns(Tail(cs), matching, replacement)

MaxDirNameLen == 200

sanitizeKey(key) ==
  LET s1 == replaceEach(KeyChars[key], {c \in KeyAlphabet : ~IsDirChar(c)}, <<"_">>)
      s2 == replaceEach(s1, {"/"}, <<"_", "_">>)
      s3 == collapseRuns(s2, Whitespace, <<"_">>)
      s4 == collapseRuns(s3, {"_"}, <<"_">>)
  IN SubSeq(s4, 1, IF Len(s4) < MaxDirNameLen THEN Len(s4) ELSE MaxDirNameLen)

Dirs == {sanitizeKey(key) : key \in DOMAIN KeyChars}

Snapshot(key, schema, version, sampleCount) ==
  [key |-> key, schema |-> schema, version |-> version, sampleCount |-> sampleCount]

(* JSON.stringify of a node: a document with the fields that are defined;  *)
(* a field whose value is undefined is left out.                           *)
stringifyNode(n) ==
  LET present ==
        {"type", "nullable"}
          \cup (IF n.format # Undefined THEN {"format"} ELSE {})
          \cup (IF n.type = "object" \/ n.properties # <<>> THEN {"properties"} ELSE {})
          \cup (IF n.type = "object" \/ n.required # <<>> THEN {"required"} ELSE {})
          \cup (IF n.items # None THEN {"items"} ELSE {})
          \cup (IF n.homogeneous # Undefined THEN {"homogeneous"} ELSE {})
          \cup (IF n.oneOf # None THEN {"oneOf"} ELSE {})
          \cup (IF n.sampleCount # 0 THEN {"sampleCount"} ELSE {})
  IN [k \in present |->
        CASE k = "properties" ->
               [i \in 1..Len(n.properties) |->
                  [key |-> n.properties[i].key,
                   node |-> stringifyNode(n.properties[i].node)]]
          [] k = "items" -> stringifyNode(n.items[1])
          [] k = "oneOf" ->
               [i \in 1..Len(n.oneOf[1]) |-> stringifyNode(n.oneOf[1][i])]
          [] OTHER -> n[k]]

(* JSON.parse of a node document: a field the document lacks reads as      *)
(* undefined.                                                              *)
parseNode(doc) ==
  LET has(k) == k \in DOMAIN doc
  IN Node(doc.type,
          doc.nullable,
          IF has("format") THEN doc.format ELSE Undefined,
          IF has("properties")
            THEN [i \in 1..Len(doc.properties) |->
                    Prop(doc.properties[i].key, parseNode(doc.properties[i].node))]
            ELSE <<>>,
          IF has("required") THEN doc.required ELSE <<>>,
          IF has("items") THEN Some(parseNode(doc.items)) ELSE None,
          IF has("homogeneous") THEN doc.homogeneous ELSE Undefined,
          IF has("oneOf")
            THEN Some([i \in 1..Len(doc.oneOf) |-> parseNode(doc.oneOf[i])])
            ELSE None,
          IF has("sampleCount") THEN doc.sampleCount ELSE 0)

JSONstringify(snapshot) ==
  [key |-> snapshot.key, schema |-> stringifyNode(snapshot.schema),
   version |-> snapshot.version, sampleCount |-> snapshot.sampleCount]

JSONparse(doc) ==
  Snapshot(doc.key, parseNode(doc.schema), doc.version, doc.sampleCount)

File(name, data) == [name |-> name, data |-> data]

NoDirectory == [exists |-> FALSE, files |-> {}]

(* Paths are pairs of a directory name and a file name *)
versionPath(key, version) == <<sanitizeKey(key), "v" \o ToString(version) \o ".json">>

latestPath(key) == <<sanitizeKey(key), "latest.json">>

existsSync(fs, path) ==
  fs[path[1]].exists /\ \E f \in fs[path[1]].files : f.name = path[2]

readFileSync(fs, path) == (CHOOSE f \in fs[path[1]].files : f.name = path[2]).data

writeFileSync(fs, path, data) ==
  [fs EXCEPT ![path[1]].files = {f \in @ : f.name # path[2]} \cup {File(path[2], data)}]

ensureDir(fs, key) == [fs EXCEPT ![sanitizeKey(key)].exists = TRUE]

(* A save that leaves an existing latest.json as it is *)
saveKeepLatest(fs, snapshot) ==
  LET data == JSONstringify(snapshot)
      made == ensureDir(fs, snapshot.key)
      versioned == writeFileSync(made, versionPath(snapshot.key, snapshot.version), data)
  IN IF existsSync(fs, latestPath(snapshot.key)) THEN versioned
     ELSE writeFileSync(versioned, latestPath(snapshot.key), data)

(* FileStore.save: the file system after the call *)
save(fs, snapshot) ==
  LET data == JSONstringify(snapshot)
      made == ensureDir(fs, snapshot.key)
      versioned == writeFileSync(made, versionPath(snapshot.key, snapshot.version), data)
  IN writeFileSync(versioned, latestPath(snapshot.key), data)

(* FileStore.load: None for null *)
load(fs, key) ==
  IF ~existsSync(fs, latestPath(key)) THEN None
  ELSE Some(JSONparse(readFileSync(fs, latestPath(key))))

(* FileStore.loadVersion: None for null *)
loadVersion(fs, key, version) ==
  IF ~existsSync(fs, versionPath(key, version)) THEN None
  ELSE Some(JSONparse(readFileSync(fs, versionPath(key, version))))

(* The file names /^v\d+\.json$/ accepts, for the version numbers the     *)
(* model writes: a guard makes at most MaxCalls calls, and a direct save   *)
(* names a version up to MaxVersion.                                       *)
MaxCalls == 4

MaxVersion == 3

VersionNumbers == 0 .. (MaxCalls + MaxVersion)

IsVersionFile(name) == \E n \in VersionNumbers : name = "v" \o ToString(n) \o ".json"

(* Array.sort((a, b) => a.version - b.version) over snapshots of distinct  *)
(* versions                                                                *)
sortByVersion(snapshots) ==
  IF snapshots = {} THEN <<>>
  ELSE LET first == CHOOSE x \in snapshots : \A y \in snapshots : x.version <= y.version
       IN <<first>> \o sortByVersion(snapshots \ {first})

(* FileStore.listVersions *)
listVersions(fs, key) ==
  LET dir == sanitizeKey(key)
  IN IF ~fs[dir].exists THEN <<>>
     ELSE sortByVersion({JSONparse(f.data) : f \in {g \in fs[dir].files : IsVersionFile(g.name)}})

(* FileStore.delete: the file system after the call *)
delete(fs, key) ==
  LET dir == sanitizeKey(key)
  IN IF fs[dir].exists THEN [fs EXCEPT ![dir] = NoDirectory] ELSE fs

---------------------------------------------------------------------------
(* SchemaGuard (the main API).  An option the caller leaves out is None.   *)

(* x ?? fallback *)
OrElse(x, fallback) == IF x = None THEN fallback ELSE x[1]

SchemaGuardOptions(autoSnapshot, autoUpdate, minSeverity) ==
  [autoSnapshot |-> autoSnapshot, autoUpdate |-> autoUpdate, minSeverity |-> minSeverity]

(* The constructor: the guard's fields *)
SchemaGuard(opts) ==
  [autoSnapshot |-> OrElse(opts.autoSnapshot, TRUE),
   autoUpdate |-> OrElse(opts.autoUpdate, FALSE),
   minSeverity |-> OrElse(opts.minSeverity, "info")]

severityOrder == [info |-> 0, warning |-> 1, breaking |-> 2]

(* A filter that keeps every change *)
filterBySeverityAll(guard, list) == list

filterBySeverity(guard, list) ==
  SelectSeq(list, LAMBDA c : severityOrder[c.severity] >= severityOrder[guard.minSeverity])

scoreFrom(list, i, score) ==
  IF i > Len(list) THEN score
  ELSE scoreFrom(list, i + 1,
                 CASE list[i].severity = "breaking" -> score - 15
                   [] list[i].severity = "warning" -> score - 5
                   [] list[i].severity = "info" -> score - 1
                   [] OTHER -> score)

(* A variant of calculateCompatibilityScore without the floor at 0 *)
calculateCompatibilityScoreUnfloored(list) == scoreFrom(list, 1, 100)

calculateCompatibilityScore(list) ==
  LET score == scoreFrom(list, 1, 100)
  IN IF score < 0 THEN 0 ELSE score

CountSeverity(list, severity) ==
  Len(SelectSeq(list, LAMBDA c : c.severity = severity))

(* The report check builds from the filtered changes *)
DriftReport(key, previousVersion, currentVersion, list) ==
  [key |-> key,
   previousVersion |-> previousVersion,
   currentVersion |-> currentVersion,
   changes |-> list,
   summary |-> [breaking |-> CountSeverity(list, "breaking"),
                warning |-> CountSeverity(list, "warning"),
                info |-> CountSeverity(list, "info"),
                total |-> Len(list)],
   compatibilityScore |-> calculateCompatibilityScore(list),
   hasBreakingChanges |-> \E i \in 1..Len(list) : list[i].severity = "breaking"]

(* A variant of createEmptyReport that reports a breaking change *)
createEmptyReportBroken(key, prevVersion, currentVersion) ==
  [key |-> key,
   previousVersion |-> prevVersion,
   currentVersion |-> currentVersion,
   changes |-> <<>>,
   summary |-> [breaking |-> 1, warning |-> 0, info |-> 0, total |-> 1],
   compatibilityScore |-> 85,
   hasBreakingChanges |-> TRUE]

createEmptyReport(key, prevVersion, currentVersion) ==
  [key |-> key,
   previousVersion |-> prevVersion,
   currentVersion |-> currentVersion,
   changes |-> <<>>,
   summary |-> [breaking |-> 0, warning |-> 0, info |-> 0, total |-> 0],
   compatibilityScore |-> 100,
   hasBreakingChanges |-> FALSE]

(* `!version` and `if (version)`: an absent version and version 0 are falsy *)
Truthy(version) == version # None /\ version[1] # 0

(* A snapshot that starts a new version for every sample it merges *)
snapshotNewVersion(fs, key, data, version) ==
  LET schema == inferSchema(data)
      existing == load(fs, key)
      merging == existing # None /\ ~Truthy(version)
      finalSchema == IF merging THEN mergeSchemas(existing[1].schema, schema) ELSE schema
      finalVersion == IF merging THEN existing[1].version + 1 ELSE OrElse(version, 1)
      sampleCount == IF merging THEN existing[1].sampleCount + 1 ELSE 1
  IN save(fs, Snapshot(key, finalSchema, finalVersion, sampleCount))

(* A snapshot that merges into the stored schema whatever version it is    *)
(* given                                                                   *)
snapshotMerging(fs, key, data, version) ==
  LET schema == inferSchema(data)
      existing == load(fs, key)
      finalSchema ==
        IF existing # None THEN mergeSchemas(existing[1].schema, schema) ELSE schema
      finalVersion ==
        IF Truthy(version) THEN version[1]
        ELSE IF existing # None THEN existing[1].version ELSE 1
      sampleCount == IF existing # None THEN existing[1].sampleCount + 1 ELSE 1
  IN save(fs, Snapshot(key, finalSchema, finalVersion, sampleCount))

(* SchemaGuard.snapshot: the file system after the call.  Responses are    *)
(* parsed data; a raw string would first pass through autoParse.           *)
snapshot(fs, key, data, version) ==
  LET schema == inferSchema(data)
      existing == load(fs, key)
      merging == existing # None /\ ~Truthy(version)
      finalSchema == IF merging THEN mergeSchemas(existing[1].schema, schema) ELSE schema
      finalVersion == IF merging THEN existing[1].version ELSE OrElse(version, 1)
      sampleCount ==
        IF merging
          THEN (IF existing[1].sampleCount = 0 THEN 1 ELSE existing[1].sampleCount) + 1
          ELSE 1
  IN save(fs, Snapshot(key, finalSchema, finalVersion, sampleCount))

(* SchemaGuard.snapshot from the return of its load on: the file system   *)
(* after the save, existing being what the load returned.                  *)
snapshotAfterLoad(fs, existing, key, data, version) ==
  LET schema == inferSchema(data)
      merging == existing # None /\ ~Truthy(version)
      finalSchema == IF merging THEN mergeSchemas(existing[1].schema, schema) ELSE schema
      finalVersion == IF merging THEN existing[1].version ELSE OrElse(version, 1)
      sampleCount ==
        IF merging
          THEN (IF existing[1].sampleCount = 0 THEN 1 ELSE existing[1].sampleCount) + 1
          ELSE 1
  IN save(fs, Snapshot(key, finalSchema, finalVersion, sampleCount))

---------------------------------------------------------------------------
(* The guard as a state machine: store is the file system, options the     *)
(* guard's fields, report the report of the last check (None after a       *)
(* learn); fed holds, for each directory, the samples folded into its      *)
(* latest snapshot, and learnedOnly tells whether learn calls alone wrote  *)
(* the directory; call describes the last call: its key and data, the    *)
(* snapshot load returned at its start and the samples fed before it;      *)
(* callsLeft is the number of learn and check calls the model still makes: *)
(* it starts at a bound; inflight holds the snapshot calls that have       *)
(* started and not yet returned.                                           *)

GuardValues ==
  { VObj(<<Field("id", VNum(10)), Field("name", VStr("hello"))>>),
    VObj(<<Field("id", VNum(10))>>),
    VArr(<<>>) }

OptionChoices ==
  { SchemaGuardOptions(None, None, None),
    SchemaGuardOptions(None, Some(TRUE), None),
    SchemaGuardOptions(Some(FALSE), None, Some("warning")),
    SchemaGuardOptions(Some(TRUE), Some(TRUE), Some("breaking")) }

Call(op, key, data, existing, fedBefore) ==
  [op |-> op, key |-> key, data |-> data, existing |-> existing, fed |-> fedBefore]

NoCall == Call("new", "", VUndef, None, <<>>)

(* The snapshot calls that can be in flight at once, and where each is:    *)
(* idle, loaded (its load has returned existing and the call waits to go   *)
(* on) or saved (its save is done and the call waits to return).           *)
Learners == {1, 2}

InFlight(pc, key, data, existing) ==
  [pc |-> pc, key |-> key, data |-> data, existing |-> existing]

NotInFlight == InFlight("idle", "", VUndef, None)

NoneInFlight == [p \in Learners |-> NotInFlight]

EngineIdle ==
  /\ a = UnknownItem
  /\ b = UnknownItem
  /\ seenA = {}
  /\ seenB = {}
  /\ last = [op |-> "infer", left |-> UnknownItem, right |-> UnknownItem]
  /\ changes = <<>>
  /\ diffed = FALSE
  /\ compatibilityScore = calculateCompatibilityScore(<<>>)

GuardIdle ==
  /\ store = [d \in Dirs |-> NoDirectory]
  /\ options = SchemaGuard(SchemaGuardOptions(None, None, None))
  /\ report = None
  /\ fed = [d \in Dirs |-> <<>>]
  /\ learnedOnly = [d \in Dirs |-> TRUE]
  /\ call = NoCall
  /\ callsLeft = 0
  /\ inflight = NoneInFlight

InitGuard ==
  /\ EngineIdle
  /\ store = [d \in Dirs |-> NoDirectory]
  /\ \E opts \in OptionChoices : options = SchemaGuard(opts)
  /\ report = None
  /\ fed = [d \in Dirs |-> <<>>]
  /\ learnedOnly = [d \in Dirs |-> TRUE]
  /\ call = NoCall
  /\ callsLeft = MaxCalls
  /\ inflight = NoneInFlight

Learn(key, data) ==
  LET existing == load(store, key)
      dir == sanitizeKey(key)
  IN /\ callsLeft > 0
     /\ callsLeft' = callsLeft - 1
     /\ store' = snapshot(store, key, data, None)
     /\ fed' = [fed EXCEPT ![dir] = IF existing = None THEN <<data>> ELSE Append(@, data)]
     /\ learnedOnly' = [learnedOnly EXCEPT ![dir] = IF existing = None THEN TRUE ELSE @]
     /\ report' = None
     /\ call' = Call("learn", key, data, existing, fed[dir])
     /\ UNCHANGED <<options, inflight>>
     /\ UNCHANGED engineVars

Check(key, data) ==
  LET currentSchema == inferSchema(data)
      existing == load(store, key)
      dir == sanitizeKey(key)
      allChanges == diffSchemas(existing[1].schema, currentSchema, "")
      listed == filterBySeverity(options, allChanges)
  IN /\ callsLeft > 0
     /\ callsLeft' = callsLeft - 1
     /\ IF existing = None
          THEN /\ IF options.autoSnapshot
                    THEN /\ store' = snapshot(store, key, data, None)
                         /\ fed' = [fed EXCEPT ![dir] = <<data>>]
                         /\ learnedOnly' = [learnedOnly EXCEPT ![dir] = FALSE]
                    ELSE UNCHANGED <<store, fed, learnedOnly>>
               /\ report' = Some(createEmptyReport(key, 1, 1))
          ELSE /\ report' = Some(DriftReport(key, existing[1].version,
                                             existing[1].version + 1, listed))
               /\ IF options.autoUpdate /\ Len(report'[1].changes) > 0
                    THEN /\ store' = snapshot(store, key, data,
                                              Some(existing[1].version + 1))
                         /\ fed' = [fed EXCEPT ![dir] = <<data>>]
                         /\ learnedOnly' = [learnedOnly EXCEPT ![dir] = FALSE]
                    ELSE UNCHANGED <<store, fed, learnedOnly>>
     /\ call' = Call("check", key, data, existing, fed[dir])
     /\ UNCHANGED <<options, inflight>>
     /\ UNCHANGED engineVars

(* SchemaGuard.diff: it throws when either version is missing, and then   *)
(* no report is returned.  It leaves the store as it is.                   *)
DiffVersions(key, versionA, versionB) ==
  LET va == loadVersion(store, key, versionA)
      vb == loadVersion(store, key, versionB)
      allChanges == diffSchemas(va[1].schema, vb[1].schema, "")
      listed == filterBySeverity(options, allChanges)
  IN /\ report' = IF va = None \/ vb = None
                     THEN None
                     ELSE Some(DriftReport(key, versionA, versionB, listed))
     /\ call' = Call("diff", key, VUndef, None, <<>>)
     /\ UNCHANGED <<store, options, fed, learnedOnly, callsLeft, inflight>>
     /\ UNCHANGED engineVars

(* SchemaGuard.diffData *)
DiffData(before, after) ==
  LET schemaBefore == inferSchema(before)
      schemaAfter == inferSchema(after)
      allChanges == diffSchemas(schemaBefore, schemaAfter, "")
      listed == filterBySeverity(options, allChanges)
  IN /\ report' = Some(DriftReport("(direct comparison)", 0, 0, listed))
     /\ call' = Call("diffData", "(direct comparison)", after, None, <<>>)
     /\ UNCHANGED <<store, options, fed, learnedOnly, callsLeft, inflight>>
     /\ UNCHANGED engineVars

NextGuard ==
  \/ \E key \in GuardKeys, data \in GuardValues : Learn(key, data)
  \/ \E key \in GuardKeys, data \in GuardValues : Check(key, data)

SpecGuard == InitGuard /\ [][NextGuard]_vars

(* The guard with every call that returns a report: diff and diffData can  *)
(* follow any of up to MaxReportCalls learn and check calls.               *)
MaxReportCalls == 2

InitReport ==
  /\ EngineIdle
  /\ store = [d \in Dirs |-> NoDirectory]
  /\ \E opts \in OptionChoices : options = SchemaGuard(opts)
  /\ report = None
  /\ fed = [d \in Dirs |-> <<>>]
  /\ learnedOnly = [d \in Dirs |-> TRUE]
  /\ call = NoCall
  /\ callsLeft = MaxReportCalls
  /\ inflight = NoneInFlight

NextReport ==
  \/ \E key \in GuardKeys, data \in GuardValues : Learn(key, data)
  \/ \E key \in GuardKeys, data \in GuardValues : Check(key, data)
  \/ \E key \in GuardKeys, versionA, versionB \in 1..MaxVersion :
       DiffVersions(key, versionA, versionB)
  \/ \E before, after \in GuardValues : DiffData(before, after)

SpecReport == InitReport /\ [][NextReport]_vars

---------------------------------------------------------------------------
(* Learn calls in flight at once.  snapshot runs up to its first await,    *)
(* whose load reads latest.json when it is called; the rest of the call    *)
(* runs when the load has returned, up to the save, which writes when it   *)
(* is called; the call returns when the save has returned.  Another call   *)
(* can start or go on at each await.  fed holds, for each directory, the   *)
(* samples in the order their snapshots were saved.                        *)

MaxLearns == 3

InitLearners ==
  /\ EngineIdle
  /\ store = [d \in Dirs |-> NoDirectory]
  /\ options = SchemaGuard(SchemaGuardOptions(None, None, None))
  /\ report = None
  /\ fed = [d \in Dirs |-> <<>>]
  /\ learnedOnly = [d \in Dirs |-> TRUE]
  /\ call = NoCall
  /\ callsLeft = MaxLearns
  /\ inflight = NoneInFlight

(* learn(key, data) up to `await this.store.load(key)` *)
BeginLearn(p, key, data) ==
  /\ inflight[p].pc = "idle"
  /\ callsLeft > 0
  /\ callsLeft' = callsLeft - 1
  /\ inflight' = [inflight EXCEPT ![p] = InFlight("loaded", key, data, load(store, key))]
  /\ call' = Call("learn", key, data, load(store, key), fed[sanitizeKey(key)])
  /\ UNCHANGED <<store, options, report, fed, learnedOnly>>
  /\ UNCHANGED engineVars

(* from the return of the load up to `await this.store.save(snapshot)` *)
ResumeLearn(p) ==
  /\ inflight[p].pc = "loaded"
  /\ store' = snapshotAfterLoad(store, inflight[p].existing, inflight[p].key,
                                inflight[p].data, None)
  /\ fed' = [fed EXCEPT ![sanitizeKey(inflight[p].key)] = Append(@, inflight[p].data)]
  /\ inflight' = [inflight EXCEPT ![p].pc = "saved"]
  /\ UNCHANGED <<options, report, learnedOnly, call, callsLeft>>
  /\ UNCHANGED engineVars

(* `return snapshot` *)
EndLearn(p) ==
  /\ inflight[p].pc = "saved"
  /\ inflight' = [inflight EXCEPT ![p] = NotInFlight]
  /\ UNCHANGED <<store, options, report, fed, learnedOnly, call, callsLeft>>
  /\ UNCHANGED engineVars

NextLearners ==
  \/ \E p \in Learners, key \in GuardKeys, data \in GuardValues : BeginLearn(p, key, data)
  \/ \E p \in Learners : ResumeLearn(p)
  \/ \E p \in Learners : EndLearn(p)

SpecLearners == InitLearners /\ [][NextLearners]_vars

---------------------------------------------------------------------------
(* The file store as a state machine: snapshots are saved under a key and  *)
(* a version, and keys are deleted; call names the last operation and its  *)
(* key.                                                                    *)

StoreValues ==
  { VObj(<<Field("id", VNum(10)), Field("name", VStr("hello"))>>),
    VObj(<<Field("id", VNum(10))>>) }

StoreSnapshots ==
  {Snapshot(key, inferSchema(data), version, 1) :
     key \in StoreKeys, data \in StoreValues, version \in 1..MaxVersion}

InitStore == EngineIdle /\ GuardIdle

Save(saved) ==
  /\ store' = save(store, saved)
  /\ call' = Call("save", saved.key, VUndef, None, <<>>)
  /\ UNCHANGED <<options, report, fed, learnedOnly, callsLeft, inflight>>
  /\ UNCHANGED engineVars

Delete(key) ==
  /\ store' = delete(store, key)
  /\ call' = Call("delete", key, VUndef, None, <<>>)
  /\ UNCHANGED <<options, report, fed, learnedOnly, callsLeft, inflight>>
  /\ UNCHANGED engineVars

NextStore ==
  \/ \E saved \in StoreSnapshots : Save(saved)
  \/ \E key \in StoreKeys : Delete(key)

SpecStore == InitStore /\ [][NextStore]_vars

---------------------------------------------------------------------------
(* The engine as a state machine: a is the learned schema, b the schema of *)
(* the latest sample, which is merged into a on either side or compared    *)
(* with it; seenA and seenB are the observations of the samples folded     *)
(* into each; last names the last operation and, for a merge, holds its    *)
(* two operands; changes is the result of the last diffSchemas(a, b) and   *)
(* compatibilityScore the score calculated from it.                        *)

Last(op, left, right) == [op |-> op, left |-> left, right |-> right]

Init ==
  /\ \E v \in Values : a = inferSchema(v) /\ seenA = Observed(v, <<>>)
  /\ \E v \in Values : b = inferSchema(v) /\ seenB = Observed(v, <<>>)
  /\ last = Last("infer", UnknownItem, UnknownItem)
  /\ changes = <<>>
  /\ diffed = FALSE
  /\ compatibilityScore = calculateCompatibilityScore(<<>>)
  /\ GuardIdle

InferB ==
  /\ \E v \in Values : b' = inferSchema(v) /\ seenB' = Observed(v, <<>>)
  /\ last' = Last("infer", UnknownItem, UnknownItem)
  /\ changes' = <<>>
  /\ diffed' = FALSE
  /\ compatibilityScore' = calculateCompatibilityScore(<<>>)
  /\ UNCHANGED <<a, seenA>>
  /\ UNCHANGED guardVars

CanMerge == SampleCountOr1(a) + SampleCountOr1(b) <= MaxSamples

MergeAB ==
  /\ CanMerge
  /\ a' = mergeSchemas(a, b)
  /\ seenA' = seenA \cup seenB
  /\ last' = Last("merge", a, b)
  /\ changes' = <<>>
  /\ diffed' = FALSE
  /\ compatibilityScore' = calculateCompatibilityScore(<<>>)
  /\ UNCHANGED <<b, seenB>>
  /\ UNCHANGED guardVars

MergeBA ==
  /\ CanMerge
  /\ a' = mergeSchemas(b, a)
  /\ seenA' = seenA \cup seenB
  /\ last' = Last("merge", b, a)
  /\ changes' = <<>>
  /\ diffed' = FALSE
  /\ compatibilityScore' = calculateCompatibilityScore(<<>>)
  /\ UNCHANGED <<b, seenB>>
  /\ UNCHANGED guardVars

Diff ==
  /\ ~diffed
  /\ changes' = diffSchemas(a, b, "")
  /\ diffed' = TRUE
  /\ compatibilityScore' = calculateCompatibilityScore(changes')
  /\ UNCHANGED <<a, b, seenA, seenB, last>>
  /\ UNCHANGED guardVars

Next == InferB \/ MergeAB \/ MergeBA \/ Diff

Spec == Init /\ [][Next]_vars

---------------------------------------------------------------------------
(* The operations as calls on nodes the caller holds: a and b are the      *)
(* caller's two nodes, as they are after the call.  A call's effect is its *)
(* result together with its arguments as it leaves them.  No statement of  *)
(* mergeSchemas, mergeObjectSchemas, createUnionSchema, diffSchemas or     *)
(* detectRenames assigns to an argument or to a node reached from one:     *)
(* they spread them into new objects and push to local arrays only.        *)

(* A merge that keeps the count of samples in its first argument *)
mergeSchemasEffectInPlace(x, y) ==
  [result |-> mergeSchemas(x, y),
   a |-> [x EXCEPT !.sampleCount = SampleCountOr1(x) + SampleCountOr1(y)],
   b |-> y]

mergeSchemasEffect(x, y) == [result |-> mergeSchemas(x, y), a |-> x, b |-> y]

diffSchemasEffect(before, after) ==
  [result |-> diffSchemas(before, after, ""), before |-> before, after |-> after]

MergeCall ==
  LET effect == mergeSchemasEffect(a, b)
  IN /\ a' = effect.a
     /\ b' = effect.b
     /\ last' = Last("mergeSchemas", a, b)
     /\ changes' = <<>>
     /\ diffed' = FALSE
     /\ compatibilityScore' = calculateCompatibilityScore(<<>>)
     /\ UNCHANGED <<seenA, seenB>>
     /\ UNCHANGED guardVars

DiffCall ==
  LET effect == diffSchemasEffect(a, b)
  IN /\ a' = effect.before
     /\ b' = effect.after
     /\ last' = Last("diffSchemas", a, b)
     /\ changes' = effect.result
     /\ diffed' = TRUE
     /\ compatibilityScore' = calculateCompatibilityScore(changes')
     /\ UNCHANGED <<seenA, seenB>>
     /\ UNCHANGED guardVars

NextCalls == MergeCall \/ DiffCall

SpecCalls == Init /\ [][NextCalls]_vars


---------------------------------------------------------------------------
(* calculateCompatibilityScore over lists of changes: a change of some     *)
(* severity is appended to changes, up to MaxChanges of them, and the      *)
(* score of the list is calculated.                                        *)

MaxChanges == 9

SampleChanges ==
  { change("field_removed", "x", "", Undefined, Undefined),
    change("nullable_changed", "x", "", Undefined, Undefined),
    change("field_added", "x", "", Undefined, Undefined) }

InitScore ==
  /\ EngineIdle
  /\ GuardIdle

AddChange(c) ==
  /\ Len(changes) < MaxChanges
  /\ changes' = Append(changes, c)
  /\ compatibilityScore' = calculateCompatibilityScore(changes')
  /\ UNCHANGED <<a, b, seenA, seenB, last, diffed>>
  /\ UNCHANGED guardVars

NextScore == \E c \in SampleChanges : AddChange(c)

SpecScore == InitScore /\ [][NextScore]_vars

---------------------------------------------------------------------------
(* The diff engine over flat objects with similar field names: a and b are *)
(* the schemas of two objects with up to MaxFields fields each, in every   *)
(* key order, and Diff compares them.                                      *)

MaxFields == 2

FieldNames == {"id", "ids", "idx", "idses", "userName", "user_name", "user_game"}

FieldValues == {VNum(10), VStr("hello")}

(* Every name holds a number in some objects; these hold a string in       *)
(* others.                                                                 *)
TwoKindNames == {"id", "ids"}

FieldChoices ==
  {f \in {Field(name, val) : name \in FieldNames, val \in FieldValues} :
     f.val = VNum(10) \/ f.key \in TwoKindNames}

FieldLists ==
  UNION {{fs \in [1..n -> FieldChoices] :
            \A i, j \in 1..n : i # j => fs[i].key # fs[j].key} :
         n \in 0..MaxFields}

FlatObjects == {VObj(fs) : fs \in FieldLists}

InitFields ==
  /\ \E v \in FlatObjects : a = inferSchema(v) /\ seenA = Observed(v, <<>>)
  /\ \E v \in FlatObjects : b = inferSchema(v) /\ seenB = Observed(v, <<>>)
  /\ last = Last("infer", UnknownItem, UnknownItem)
  /\ changes = <<>>
  /\ diffed = FALSE
  /\ compatibilityScore = calculateCompatibilityScore(<<>>)
  /\ GuardIdle

NextFields == Diff

SpecFields == InitFields /\ [][NextFields]_vars

---------------------------------------------------------------------------
(* The diff over nodes learned from one or two samples of a response with  *)
(* nested, optional and nullable fields: a and b are each the schema of a  *)
(* sample of OrderValues or the merge of the schemas of two of them.       *)

OrderValues ==
  { VObj(<<Field("id", VNum(10)), Field("tag", VBool), Field("name", VStr("hello")),
           Field("item", VObj(<<Field("id", VNum(10))>>)), Field("code", VNum(10))>>),
    VObj(<<Field("id", VNum(10)), Field("tag", VBool), Field("name", VNull),
           Field("item", VNull)>>),
    VObj(<<Field("ids", VNum(10)), Field("extra", VBool), Field("name", VStr("a@b.co")),
           Field("item", VObj(<<Field("id", VStr("hello"))>>)), Field("code", VNum(10))>>),
    VObj(<<Field("ids", VNum(10)), Field("extra", VBool), Field("name", VStr("a@b.co")),
           Field("code", VNum(10))>>),
    VObj(<<Field("item", VArr(<<VStr("hello")>>))>>),
    VNull }

OrderNodes ==
  {[node |-> inferSchema(v), seen |-> Observed(v, <<>>)] : v \in OrderValues}
    \cup {[node |-> mergeSchemas(inferSchema(v), inferSchema(w)),
           seen |-> Observed(v, <<>>) \cup Observed(w, <<>>)] :
          v \in OrderValues, w \in OrderValues}

InitOrder ==
  /\ \E n \in OrderNodes : a = n.node /\ seenA = n.seen
  /\ \E n \in OrderNodes : b = n.node /\ seenB = n.seen
  /\ last = Last("infer", UnknownItem, UnknownItem)
  /\ changes = <<>>
  /\ diffed = FALSE
  /\ compatibilityScore = calculateCompatibilityScore(<<>>)
  /\ GuardIdle

NextOrder == Diff

SpecOrder == InitOrder /\ [][NextOrder]_vars

---------------------------------------------------------------------------
(* Inference and merge over arrays whose items are strings of two formats, *)
(* numbers and nulls: a and b start as the schemas of two such arrays and  *)
(* are then inferred, merged and compared as before.                       *)

MaxItems == 3

ItemValues == {VStr("hello"), VStr("a@b.co"), VNum(10), VNull}

ItemArrays == {VArr(elems) : elems \in UNION {[1..n -> ItemValues] : n \in 0..MaxItems}}

InitItems ==
  /\ \E v \in ItemArrays : a = inferSchema(v) /\ seenA = Observed(v, <<>>)
  /\ \E v \in ItemArrays : b = inferSchema(v) /\ seenB = Observed(v, <<>>)
  /\ last = Last("infer", UnknownItem, UnknownItem)
  /\ changes = <<>>
  /\ diffed = FALSE
  /\ compatibilityScore = calculateCompatibilityScore(<<>>)
  /\ GuardIdle

SpecItems == InitItems /\ [][Next]_vars

---------------------------------------------------------------------------
(* The diff over nodes a caller builds by hand: SchemaNode is an interface *)
(* whose fields other than type and nullable are all optional, so a caller *)
(* can pass a node that sets oneOf together with items or homogeneous.     *)

StringNode == inferSchema(VStr("hello"))

NumberNode == inferSchema(VNum(10))

BooleanNode == inferSchema(VBool)

(* A union as createUnionSchema builds it *)
UnionNode(members) ==
  Node("unknown", FALSE, Undefined, <<>>, <<>>, None, Undefined, Some(members), Len(members))

(* The node with the array-only fields set as well *)
WithItems(node, items, homogeneous) ==
  [node EXCEPT !.items = Some(items), !.homogeneous = homogeneous]

IsInvalidNode(n) == n.oneOf # None /\ (n.items # None \/ n.homogeneous # Undefined)

InvalidNodes ==
  { WithItems(UnionNode(<<StringNode, NumberNode>>), StringNode, "true"),
    WithItems(UnionNode(<<StringNode, NumberNode>>), NumberNode, "false"),
    WithItems(UnionNode(<<BooleanNode, NumberNode>>), BooleanNode, "true"),
    [inferSchema(VArr(<<VNum(10)>>)) EXCEPT !.oneOf = Some(<<StringNode, NumberNode>>)],
    [inferSchema(VArr(<<VStr("hello")>>)) EXCEPT !.oneOf = Some(<<StringNode>>)] }

CallerNodes ==
  { StringNode, NumberNode,
    inferSchema(VArr(<<VNum(10)>>)),
    inferSchema(VArr(<<VNum(10), VStr("hello")>>)),
    inferSchema(VObj(<<Field("id", VNum(10))>>)),
    UnionNode(<<StringNode, NumberNode>>) }
    \cup InvalidNodes

InitNodes ==
  /\ a \in CallerNodes
  /\ b \in CallerNodes
  /\ seenA = {}
  /\ seenB = {}
  /\ last = Last("infer", UnknownItem, UnknownItem)
  /\ changes = <<>>
  /\ diffed = FALSE
  /\ compatibilityScore = calculateCompatibilityScore(<<>>)
  /\ GuardIdle

NextNodes == Diff

SpecNodes == InitNodes /\ [][NextNodes]_vars

---------------------------------------------------------------------------
(* Vocabulary of the properties *)

Children(n) ==
  {n.properties[i].node : i \in 1..Len(n.properties)}
    \cup Range(n.items)
    \cup (IF n.oneOf = None THEN {} ELSE Range(n.oneOf[1]))

(* Every node of the tree: the node, its properties, items and alternatives *)
AllNodes(n) == {n} \cup UNION {AllNodes(c) : c \in Children(n)}

(* The nodes found at a position: a field name selects that property, "[]" *)
(* the item schema; the alternatives of a union stand at the position of   *)
(* the union, so a step is also taken inside each of them.                 *)
NodesAt(n, pos) ==
  IF pos = <<>> THEN {n}
  ELSE LET step == Head(pos)
           here == IF step = "[]" THEN Range(n.items)
                   ELSE {n.properties[i].node :
                           i \in {j \in 1..Len(n.properties) : n.properties[j].key = step}}
           alts == IF n.oneOf = None THEN {} ELSE Range(n.oneOf[1])
       IN UNION {NodesAt(c, Tail(pos)) : c \in here}
            \cup UNION {NodesAt(alt, pos) : alt \in alts}

(* A node up to the order of its keys and of its union alternatives.  With *)
(* full = FALSE the form keeps only kind, nullable, properties, required,  *)
(* items and alternatives; with full = TRUE also format, homogeneous and   *)
(* sampleCount.                                                            *)
Canon(n, full) ==
  [type |-> n.type,
   nullable |-> n.nullable,
   format |-> IF full THEN n.format ELSE "",
   properties |-> {<<n.properties[i].key, Canon(n.properties[i].node, full)>> :
                     i \in 1..Len(n.properties)},
   required |-> Range(n.required),
   items |-> {Canon(c, full) : c \in Range(n.items)},
   homogeneous |-> IF full THEN n.homogeneous ELSE "",
   hasOneOf |-> n.oneOf # None,
   oneOf |-> IF n.oneOf = None THEN {} ELSE {Canon(c, full) : c \in Range(n.oneOf[1])},
   sampleCount |-> IF full THEN n.sampleCount ELSE 0]

Keys(n) == Range(PropKeys(n.properties))

(* m has the kind, nullable flag, format, property names and required set  *)
(* of n, and so has every property, item schema and union alternative of   *)
(* m with respect to its counterpart in n.                                 *)
SameShape(m, n) ==
  /\ m.type = n.type
  /\ m.nullable = n.nullable
  /\ m.format = n.format
  /\ Keys(m) = Keys(n)
  /\ Range(m.required) = Range(n.required)
  /\ \A key \in Keys(m) : SameShape(PropOf(m.properties, key), PropOf(n.properties, key))
  /\ Len(m.items) = Len(n.items)
  /\ \A i \in 1..Len(m.items) : SameShape(m.items[i], n.items[i])
  /\ Len(m.oneOf) = Len(n.oneOf)
  /\ \A i \in 1..Len(m.oneOf) :
        /\ Len(m.oneOf[i]) = Len(n.oneOf[i])
        /\ \A j \in 1..Len(m.oneOf[i]) : SameShape(m.oneOf[i][j], n.oneOf[i][j])

---------------------------------------------------------------------------
(* C1: mergeSchemas is commutative: for the learned schema a and the       *)
(* sample schema b, mergeSchemas(a, b) and mergeSchemas(b, a) have the     *)
(* same kind, nullable flag, properties (ignoring key order), required set *)
(* and union alternatives (as a set), at every level.                      *)
C1_MergeCommutative ==
  Canon(mergeSchemas(a, b), FALSE) = Canon(mergeSchemas(b, a), FALSE)

(* C2: merging the schema of a value with itself keeps the kind, the       *)
(* properties at every level, the format and the nullable flag of the      *)
(* inferred schema, and counts two samples.  b is the schema inferred from *)
(* the latest sample, which ranges over all the values.                    *)
C2_MergeIdempotent ==
  /\ LET m == mergeSchemas(b, b)
     IN SameShape(m, b) /\ m.sampleCount = 2
  /\ (last.op = "merge" /\ last.left = last.right /\ last.left.sampleCount = 1)
       => (SameShape(a, last.left) /\ a.sampleCount = 2)

(* C2 witness: an inferred object schema with a formatted property has been *)
(* merged with itself.                                                      *)
C2_Witness ==
  /\ last.op = "merge"
  /\ last.left = last.right
  /\ last.left.sampleCount = 1
  /\ a.type = "object"
  /\ \E i \in 1..Len(a.properties) : a.properties[i].node.format = "integer"
  /\ a.sampleCount = 2

(* C3: comparing the schema of a value (b, inferred from any of the        *)
(* values) with itself reports no change; so does comparing any learned    *)
(* schema, unions included, with itself.                                   *)
C3_DiffIdentityEmpty ==
  /\ (diffed /\ a = b) => changes = <<>>
  /\ diffSchemas(b, b, "") = <<>>
  /\ diffSchemas(a, a, "") = <<>>

(* C3 witness: diffSchemas has compared two equal schemas of a mixed array, *)
(* whose item schema is a union.                                            *)
C3_Witness ==
  /\ diffed
  /\ a = b
  /\ a.type = "array"
  /\ a.items # None
  /\ a.items[1].oneOf # None
  /\ changes = <<>>

(* C4: a node is nullable whenever a sample folded into it was null at the *)
(* node's position, and every node of kind null is nullable.               *)
C4_NullableNeverLost ==
  /\ \A o \in seenA : o[2] = "null" => \A n \in NodesAt(a, o[1]) : n.nullable
  /\ \A n \in AllNodes(a) : n.type = "null" => n.nullable

ObjectNodes(n) == {x \in AllNodes(n) : x.type = "object"}

NoDuplicates(seq) == Cardinality(Range(seq)) = Len(seq)

(* C6: merging two object nodes yields an object whose property names are  *)
(* those of either input and whose required names are those required in   *)
(* both; a name present or required on one side only stays a property and *)
(* is not required.                                                        *)
C6_RequiredNarrowing ==
  /\ \A x \in ObjectNodes(a) : \A y \in ObjectNodes(b) :
       LET m == mergeSchemas(x, y)
       IN /\ m.type = "object"
          /\ Keys(m) = Keys(x) \cup Keys(y)
          /\ Range(m.required) = Range(x.required) \cap Range(y.required)
          /\ NoDuplicates(PropKeys(m.properties))
          /\ NoDuplicates(m.required)
  /\ (last.op = "merge" /\ last.left.type = "object" /\ last.right.type = "object")
       => /\ Keys(a) = Keys(last.left) \cup Keys(last.right)
          /\ Range(a.required) = Range(last.left.required) \cap Range(last.right.required)

(* C6 witness: two object schemas have been merged, one with a required    *)
(* property the other lacks; the property is kept and is not required.     *)
C6_Witness ==
  /\ last.op = "merge"
  /\ last.left.type = "object"
  /\ last.right.type = "object"
  /\ \E key \in Range(last.left.required) :
       /\ key \notin Keys(last.right)
       /\ key \in Keys(a)
       /\ key \notin Range(a.required)
  /\ a.required # <<>>

(* C7: in every object node, at every level of the learned schema and of   *)
(* the sample schema, the required names are names of properties.          *)
C7_RequiredSubsetOfProperties ==
  \A n \in AllNodes(a) \cup AllNodes(b) :
    n.type = "object" => Range(n.required) \subseteq Keys(n)

(* C7 witness: a learned object schema, merged from two samples, that has  *)
(* both a required and an optional property.                               *)
C7_Witness ==
  /\ last.op = "merge"
  /\ a.type = "object"
  /\ a.required # <<>>
  /\ Keys(a) \ Range(a.required) # {}

(* The samples that JSON can carry: every sample but undefined *)
JsonValues == Values \ {VUndef}

(* C8: mergeSchemas is associative on inferred schemas: for the schemas of *)
(* three samples, merging the first two and then the third equals merging  *)
(* the first with the merge of the other two, in every field, up to the    *)
(* order of keys and of union alternatives.                                *)
C8_MergeAssociative ==
  (\E u, w \in JsonValues : a = inferSchema(u) /\ b = inferSchema(w)) =>
    \A v \in JsonValues :
      LET c == inferSchema(v)
      IN Canon(mergeSchemas(mergeSchemas(a, b), c), TRUE)
           = Canon(mergeSchemas(a, mergeSchemas(b, c)), TRUE)

(* C9: a node has oneOf only if its type is unknown, and then it has at    *)
(* least two alternatives.                                                 *)
C9_UnionWellFormed ==
  \A n \in AllNodes(a) \cup AllNodes(b) :
    n.oneOf # None => (n.type = "unknown" /\ Len(n.oneOf[1]) >= 2)

(* C9 witness: the learned schema is a union made by merging two samples   *)
(* of different kinds.                                                     *)
C9_Witness ==
  /\ last.op = "merge"
  /\ last.left.type # last.right.type
  /\ a.oneOf # None
  /\ Len(a.oneOf[1]) = 2

(* The paths diffSchemas can give to the descendants of a node at path *)
SubPaths(n, path) ==
  UNION {{FieldPath(path, n.properties[i].key)}
           \cup SubPaths(n.properties[i].node, FieldPath(path, n.properties[i].key)) :
         i \in 1..Len(n.properties)}
    \cup UNION {{IF path = "" THEN "[]" ELSE path \o "[]"}
                  \cup SubPaths(c, IF path = "" THEN "[]" ELSE path \o "[]") :
                c \in Range(n.items)}

DiffPaths == {"", "id", "id[]", "id.name"}

OneIsObject(x, y) == (x.type = "object") # (y.type = "object")

IsKindChange(c, x, y, path) ==
  /\ c.type = (IF OneIsObject(x, y) THEN "nesting_changed" ELSE "type_changed")
  /\ c.severity = "breaking"
  /\ c.path = (IF path = "" THEN "(root)" ELSE path)

(* C10: comparing two nodes of different kinds yields exactly one change:  *)
(* nesting_changed if exactly one kind is object, type_changed otherwise,  *)
(* breaking, at the node's path ((root) at the root); nothing is reported  *)
(* for the nodes below.                                                    *)
C10_KindChangeIsOneChange ==
  /\ \A x \in AllNodes(a) : \A y \in AllNodes(b) : \A path \in DiffPaths :
       x.type # y.type =>
         LET d == diffSchemas(x, y, path)
         IN Len(d) = 1 /\ IsKindChange(d[1], x, y, path)
  /\ (diffed /\ a.type # b.type) =>
       (Len(changes) = 1 /\ IsKindChange(changes[1], a, b, ""))
  /\ (diffed /\ a.type = "object" /\ b.type = "object") =>
       \A key \in Keys(a) \cap Keys(b) :
         LET x == PropOf(a.properties, key)
             y == PropOf(b.properties, key)
             at == {i \in 1..Len(changes) :
                      changes[i].path = key /\ changes[i].type # "required_changed"}
             below == {i \in 1..Len(changes) :
                         changes[i].path \in SubPaths(x, key) \cup SubPaths(y, key)}
         IN x.type # y.type =>
              /\ Cardinality(at) = 1
              /\ \A i \in at : IsKindChange(changes[i], x, y, key)
              /\ below = {}

(* C10 witness: diffSchemas has compared two objects whose shared property *)
(* id is an object with properties of its own on one side and a number on  *)
(* the other, and reported the one nesting change.                         *)
C10_Witness ==
  /\ diffed
  /\ a.type = "object"
  /\ b.type = "object"
  /\ HasKey(a.properties, "id")
  /\ HasKey(b.properties, "id")
  /\ PropOf(a.properties, "id").type = "object"
  /\ PropOf(a.properties, "id").properties # <<>>
  /\ PropOf(b.properties, "id").type = "number"
  /\ \E i \in 1..Len(changes) : changes[i].type = "nesting_changed" /\ changes[i].path = "id"

HasField(value, name) == \E i \in 1..Len(value.fields) : value.fields[i].key = name

(* A field that the samples fed for the key show in some and not in others *)
(* and that the stored schema therefore holds as a property not required   *)
LearnedOptional(samples, schema, name) ==
  /\ \A i \in 1..Len(samples) : samples[i].k = "object"
  /\ \E i \in 1..Len(samples) : HasField(samples[i], name)
  /\ \E i \in 1..Len(samples) : ~HasField(samples[i], name)
  /\ schema.type = "object"
  /\ name \in Keys(schema) \ Range(schema.required)

(* C5: once the samples learned for a key had a field in some and not in   *)
(* others, so that the stored schema holds it as optional, a check of a    *)
(* response without that field reports no breaking change at that field.   *)
C5_OptionalFieldOmittedNotBreaking ==
  (call.op = "check" /\ call.existing # None /\ call.data.k = "object") =>
    \A name \in DOMAIN NameChars :
      (LearnedOptional(call.fed, call.existing[1].schema, name)
         /\ ~HasField(call.data, name))
        => \A i \in 1..Len(report[1].changes) :
             ~(report[1].changes[i].severity = "breaking"
                 /\ report[1].changes[i].path = name)

IsKindChangeType(c) == c.type \in {"type_changed", "nesting_changed"}

Occurs(c, list) == \E i \in 1..Len(list) : list[i] = c

(* C11: when diffSchemas compares two arrays that both have an item        *)
(* schema, it reports one array_items_changed at the array's path, and     *)
(* none of the changes of the items, exactly when the comparison of the    *)
(* two item schemas reports a type_changed or nesting_changed at the item  *)
(* path itself; otherwise it reports every change of the items as it is.   *)
C11_ArrayItemsCollapse ==
  (diffed /\ a.type = "array" /\ b.type = "array" /\ a.items # None /\ b.items # None) =>
    LET itemChanges == diffSchemas(a.items[1], b.items[1], "[]")
        atItemLevel == \E i \in 1..Len(itemChanges) :
                         IsKindChangeType(itemChanges[i]) /\ itemChanges[i].path = "[]"
        collapsed == {i \in 1..Len(changes) :
                        changes[i].type = "array_items_changed"
                          /\ changes[i].path = "(root)"}
    IN IF atItemLevel
         THEN /\ Cardinality(collapsed) = 1
              /\ \A i \in 1..Len(itemChanges) : ~Occurs(itemChanges[i], changes)
         ELSE /\ collapsed = {}
              /\ \A i \in 1..Len(itemChanges) : Occurs(itemChanges[i], changes)

(* The changes that speak of a key found only in before: the rename that   *)
(* has it as its old name, and any other change at its path                *)
AboutRemoved(key) ==
  {i \in 1..Len(changes) :
     \/ changes[i].type = "field_renamed" /\ changes[i].before = key
     \/ changes[i].type # "field_renamed" /\ changes[i].path = key}

(* The changes that speak of a key found only in after *)
AboutAdded(key) ==
  {i \in 1..Len(changes) :
     \/ changes[i].type = "field_renamed" /\ changes[i].after = key
     \/ changes[i].type # "field_renamed" /\ changes[i].path = key}

SeverityOf(type) ==
  CASE type \in {"field_added", "format_changed"} -> "info"
    [] type \in {"field_removed", "type_changed", "nesting_changed"} -> "breaking"
    [] type \in {"nullable_changed", "array_items_changed", "field_renamed",
                 "required_changed", "homogeneity_changed"} -> "warning"
    [] OTHER -> "none"

HasFixedSeverity(list) ==
  \A i \in 1..Len(list) : list[i].severity = SeverityOf(list[i].type)

(* C13: every change diffSchemas returns has the severity of its kind:     *)
(* info for field_added and format_changed; breaking for field_removed,    *)
(* type_changed and nesting_changed; warning for the other five kinds.     *)
(* The learned schema is compared with the sample schema in both           *)
(* directions, and two objects with a renamed field are compared as well.  *)
C13_SeverityFixedByKind ==
  /\ diffed => HasFixedSeverity(changes)
  /\ HasFixedSeverity(diffSchemas(a, b, ""))
  /\ HasFixedSeverity(diffSchemas(b, a, ""))
  /\ LET renamed == diffSchemas(inferSchema(VObj(<<Field("id", VNum(10))>>)),
                                inferSchema(VObj(<<Field("ids", VNum(10))>>)), "")
     IN /\ Len(renamed) = 1
        /\ renamed[1].type = "field_renamed"
        /\ HasFixedSeverity(renamed)

(* C13 witness: a diff that reports changes of all three severities *)
C13_Witness ==
  /\ diffed
  /\ \E i \in 1..Len(changes) : changes[i].severity = "info"
  /\ \E i \in 1..Len(changes) : changes[i].severity = "warning"
  /\ \E i \in 1..Len(changes) : changes[i].severity = "breaking"

Reverse(seq) == [i \in 1..Len(seq) |-> seq[Len(seq) + 1 - i]]

Deduction(list) ==
  15 * CountSeverity(list, "breaking") + 5 * CountSeverity(list, "warning")
    + CountSeverity(list, "info")

FirstCheckStep ==
  /\ callsLeft' = callsLeft - 1
  /\ call'.op = "check"
  /\ call'.existing = None

(* C15: a check of a key that has no stored snapshot returns a report with *)
(* no changes, score 100 and no breaking changes; with autoSnapshot the    *)
(* store then holds for the key the snapshot, version 1 and one sample, of *)
(* the schema inferred from the response; without it the store is as it    *)
(* was before.                                                             *)
C15_FirstCheckIsClean ==
  [][FirstCheckStep =>
       /\ report' # None
       /\ report'[1].changes = <<>>
       /\ report'[1].summary.total = 0
       /\ report'[1].compatibilityScore = 100
       /\ report'[1].hasBreakingChanges = FALSE
       /\ options.autoSnapshot =>
            load(store', call'.key) =
              Some(Snapshot(call'.key, inferSchema(call'.data), 1, 1))
       /\ ~options.autoSnapshot =>
            /\ store' = store
            /\ ~store'[sanitizeKey(call'.key)].exists]_vars

(* C15 witness: without autoSnapshot, a key that has no snapshot has been  *)
(* checked while another key has one; the checked key has no directory.    *)
C15_Witness ==
  /\ call.op = "check"
  /\ call.existing = None
  /\ ~options.autoSnapshot
  /\ report # None
  /\ ~store[sanitizeKey(call.key)].exists
  /\ \E d \in Dirs : store[d].exists

---------------------------------------------------------------------------
(* The left-to-right fold of mergeSchemas over the schemas inferred from   *)
(* the samples, starting from the first.                                   *)
foldLearned(samples) ==
  reduceMerge(inferSchema(samples[1]),
              [i \in 1..Len(samples) |-> inferSchema(samples[i])], 2)

(* C16: when learn calls alone have written a key since the store was      *)
(* empty, n of them, the latest snapshot has version 1, the key has        *)
(* exactly one version, the snapshot counts n samples and its schema is    *)
(* the left-to-right mergeSchemas fold of the n inferred schemas.          *)
C16_LearnAccumulates ==
  \A key \in GuardKeys :
    LET dir == sanitizeKey(key)
        n == Len(fed[dir])
    IN (learnedOnly[dir] /\ n >= 1) =>
         /\ load(store, key) = Some(Snapshot(key, foldLearned(fed[dir]), 1, n))
         /\ Len(listVersions(store, key)) = 1
         /\ listVersions(store, key)[1] = load(store, key)[1]
         /\ loadVersion(store, key, 1) = load(store, key)

(* C16 witness: three different samples learned for one key, the last of   *)
(* them after a check of the key.                                          *)
C16_Witness ==
  \E key \in GuardKeys :
    LET dir == sanitizeKey(key)
    IN /\ learnedOnly[dir]
       /\ Len(fed[dir]) = 3
       /\ fed[dir][1] # fed[dir][2]
       /\ fed[dir][2] # fed[dir][3]
       /\ call.op = "learn"
       /\ call.key = key
       /\ report = None
       /\ load(store, key)[1].sampleCount = 3

---------------------------------------------------------------------------
(* The score as the README states it, from the counts of a list *)
ScoreOf(list) == IF 100 - Deduction(list) < 0 THEN 0 ELSE 100 - Deduction(list)

(* C17: in a report returned by check, diff or diffData every listed       *)
(* change has a severity at or above the guard's minSeverity, the summary  *)
(* counts the listed changes by severity and in total, hasBreakingChanges  *)
(* tells whether a breaking change is listed, and the score is that of     *)
(* the listed changes.                                                     *)
C17_ReportConsistent ==
  (report # None /\ call.op \in {"check", "diff", "diffData"}) =>
    LET r == report[1]
        rank == [info |-> 0, warning |-> 1, breaking |-> 2]
        count(severity) ==
          Cardinality({i \in 1..Len(r.changes) : r.changes[i].severity = severity})
    IN /\ \A i \in 1..Len(r.changes) :
            rank[r.changes[i].severity] >= rank[options.minSeverity]
       /\ r.summary.breaking = count("breaking")
       /\ r.summary.warning = count("warning")
       /\ r.summary.info = count("info")
       /\ r.summary.breaking + r.summary.warning + r.summary.info = r.summary.total
       /\ r.summary.total = Len(r.changes)
       /\ r.hasBreakingChanges = (r.summary.breaking > 0)
       /\ r.compatibilityScore = ScoreOf(r.changes)

(* C17 witness: a guard whose minSeverity is above info has compared two   *)
(* stored versions, the later one first; they differ by an info change,    *)
(* which the report does not list.                                         *)
C17_Witness ==
  /\ call.op = "diff"
  /\ report # None
  /\ options.minSeverity # "info"
  /\ report[1].previousVersion > report[1].currentVersion
  /\ LET allChanges ==
           diffSchemas(loadVersion(store, call.key, report[1].previousVersion)[1].schema,
                       loadVersion(store, call.key, report[1].currentVersion)[1].schema, "")
     IN /\ \E i \in 1..Len(allChanges) : allChanges[i].severity = "info"
        /\ report[1].changes = <<>>
        /\ report[1].compatibilityScore = 100

---------------------------------------------------------------------------
(* What the store returns for a key: the latest snapshot, each version and *)
(* the list of versions.                                                   *)
ViewOf(fs, key) ==
  [latest |-> load(fs, key),
   versions |-> [n \in 1..MaxVersion |-> loadVersion(fs, key, n)],
   listed |-> listVersions(fs, key)]

(* C18: a save or a delete on one key leaves what load, loadVersion and    *)
(* listVersions return for every other key as it was, and the snapshot     *)
(* load returns for a key has that key as its key field.                   *)
C18_KeyIsolation ==
  [][
      /\ \A saved \in StoreSnapshots, other \in StoreKeys :
           (Save(saved) /\ other # saved.key) =>
             ViewOf(store', other) = ViewOf(store, other)
      /\ \A key \in StoreKeys, other \in StoreKeys :
           (Delete(key) /\ other # key) =>
             ViewOf(store', other) = ViewOf(store, other)
      /\ \A key \in StoreKeys :
           load(store', key) # None => load(store', key)[1].key = key
    ]_vars

(* C19: after a save, load returns for the snapshot's key the snapshot     *)
(* saved, loadVersion returns it for its version and returns for every     *)
(* other version of the key what it returned before, so that each version  *)
(* holds the snapshot last saved with it; after a delete, load and         *)
(* loadVersion return null for the key and listVersions is empty.          *)
C19_LatestIsLastSave ==
  [][
      /\ \A saved \in StoreSnapshots :
           (call'.key = saved.key /\ Save(saved)) =>
             /\ load(store', saved.key) = Some(saved)
             /\ \A n \in 1..MaxVersion :
                  loadVersion(store', saved.key, n) =
                    (IF n = saved.version THEN Some(saved)
                     ELSE loadVersion(store, saved.key, n))
      /\ \A key \in StoreKeys :
           (call'.key = key /\ Delete(key)) =>
             /\ load(store', key) = None
             /\ \A n \in 1..MaxVersion : loadVersion(store', key, n) = None
             /\ listVersions(store', key) = <<>>
    ]_vars

(* C19 witness: a key whose versions 2 and 3 were saved has had version 1  *)
(* saved last, and the latest snapshot is that of version 1.               *)
C19_Witness ==
  /\ call.op = "save"
  /\ load(store, call.key) # None
  /\ load(store, call.key)[1].version = 1
  /\ \A n \in 1..3 :
       /\ loadVersion(store, call.key, n) # None
       /\ loadVersion(store, call.key, n)[1].key = call.key
  /\ Len(listVersions(store, call.key)) = 3
  /\ listVersions(store, call.key)[1] = load(store, call.key)[1]

---------------------------------------------------------------------------
(* C20: diffSchemas has one result, the list of changes; when it is given  *)
(* a node that sets oneOf together with items or homogeneous, the          *)
(* comparison is not reported as an empty list of changes.                 *)
C20_InvalidInputSignalled ==
  (diffed /\ (IsInvalidNode(a) \/ IsInvalidNode(b))) => changes # <<>>

---------------------------------------------------------------------------
---------------------------------------------------------------------------
(* A step that is a check of a key that has a snapshot *)
CheckExistingStep ==
  /\ callsLeft' = callsLeft - 1
  /\ call'.op = "check"
  /\ call'.existing # None

LatestVersion(fs, key) == IF load(fs, key) = None THEN 0 ELSE load(fs, key)[1].version

---------------------------------------------------------------------------
(* The three rules of name similarity, stated on the characters of the     *)
(* names.                                                                  *)

(* long is short followed by suffix *)
EndsWith(long, short, suffix) ==
  /\ Len(long) = Len(short) + Len(suffix)
  /\ SubSeq(long, 1, Len(short)) = short
  /\ SubSeq(long, Len(short) + 1, Len(long)) = suffix

PluralRule(p, q) ==
  LET lp == toLowerCase(Chars(p))
      lq == toLowerCase(Chars(q))
  IN \E suffix \in {<<"s">>, <<"e", "s">>} :
       EndsWith(lq, lp, suffix) \/ EndsWith(lp, lq, suffix)

(* Without its separators and in lower case *)
Squash(cs) == toLowerCase(SelectSeq(cs, LAMBDA c : c \notin {"_", "-"}))

CaseStyleRule(p, q) == Squash(Chars(p)) = Squash(Chars(q))

NameAlphabet == UNION {Range(toLowerCase(NameChars[name])) : name \in DOMAIN NameChars}

(* The sequences one deletion, insertion or substitution away from cs, and *)
(* cs itself                                                               *)
OneEdit(cs) ==
  {cs}
    \cup {SubSeq(cs, 1, i - 1) \o SubSeq(cs, i + 1, Len(cs)) : i \in 1..Len(cs)}
    \cup {SubSeq(cs, 1, i) \o <<c>> \o SubSeq(cs, i + 1, Len(cs)) :
            i \in 0..Len(cs), c \in NameAlphabet}
    \cup {[cs EXCEPT ![i] = c] : i \in 1..Len(cs), c \in NameAlphabet}

(* At most two edits apart: one edit from each side meets *)
EditRule(p, q) ==
  /\ Len(Chars(p)) <= 8
  /\ Len(Chars(q)) <= 8
  /\ OneEdit(toLowerCase(Chars(p))) \cap OneEdit(toLowerCase(Chars(q))) # {}

Renames == {i \in 1..Len(changes) : changes[i].type = "field_renamed"}

(* C23: a field_renamed change of the diff of two objects names a key      *)
(* found only in before and a key found only in after whose schemas have   *)
(* the same kind and whose names are similar by the plural rule, by the    *)
(* case-style rule or by the edit-distance rule for names of at most 8     *)
(* characters.                                                             *)
C23_RenameEligibility ==
  (diffed /\ a.type = "object" /\ b.type = "object") =>
    \A i \in Renames :
      LET removed == changes[i].before
          added == changes[i].after
      IN /\ removed \in Keys(a) \ Keys(b)
         /\ added \in Keys(b) \ Keys(a)
         /\ PropOf(a.properties, removed).type = PropOf(b.properties, added).type
         /\ \/ PluralRule(removed, added)
            \/ CaseStyleRule(removed, added)
            \/ EditRule(removed, added)

(* C23 witness: user_name was replaced by user_game and by userName, one   *)
(* edit and a change of case style away: the diff reports the rename to    *)
(* userName and reports user_game as added.                                *)
C23_Witness ==
  /\ diffed
  /\ Keys(a) = {"user_name"}
  /\ PropKeys(b.properties) = <<"user_game", "userName">>
  /\ \E i \in Renames : changes[i].before = "user_name" /\ changes[i].after = "userName"
  /\ \E i \in 1..Len(changes) :
       changes[i].type = "field_added" /\ changes[i].path = "user_game"

---------------------------------------------------------------------------
(* The keys found only in before and only in after, in their key order *)
RemovedKeys == SelectSeq(PropKeys(a.properties), LAMBDA key : key \notin Keys(b))

AddedKeys == SelectSeq(PropKeys(b.properties), LAMBDA key : key \notin Keys(a))

(* The pairs of names similar by one of the three rules *)
SimilarNames ==
  {pair \in FieldNames \X FieldNames :
     \/ PluralRule(pair[1], pair[2])
     \/ CaseStyleRule(pair[1], pair[2])
     \/ EditRule(pair[1], pair[2])}

Eligible(removed, added) ==
  /\ PropOf(a.properties, removed).type = PropOf(b.properties, added).type
  /\ <<removed, added>> \in SimilarNames

(* The added key the rename changes pair with a removed key, if any *)
PairedWith(removed) ==
  {changes[i].after : i \in {j \in Renames : changes[j].before = removed}}

(* The added keys paired with the removed keys before position i *)
ClaimedBefore(i) == UNION {PairedWith(RemovedKeys[h]) : h \in 1..(i - 1)}

(* C24: in the diff of two objects each removed key, in key order, is      *)
(* paired with the first added key, in key order, that is eligible and not *)
(* paired with an earlier removed key, and with none if there is no such   *)
(* key; the renames are listed in the order of the removed keys.           *)
C24_GreedyFirstMatch ==
  (diffed /\ a.type = "object" /\ b.type = "object") =>
    /\ \A i \in 1..Len(RemovedKeys) :
         LET free == {j \in 1..Len(AddedKeys) :
                        /\ Eligible(RemovedKeys[i], AddedKeys[j])
                        /\ AddedKeys[j] \notin ClaimedBefore(i)}
         IN PairedWith(RemovedKeys[i]) =
              (IF free = {} THEN {}
               ELSE {AddedKeys[CHOOSE j \in free : \A h \in free : j <= h]})
    /\ [i \in 1..Cardinality(Renames) |-> changes[i].before]
         = SelectSeq(RemovedKeys, LAMBDA key : PairedWith(key) # {})

(* C24 witness: id and idses were replaced by ids and idx; id is similar   *)
(* to both and takes ids, the only key idses is similar to, so idses stays *)
(* unmatched although pairing id with idx would have matched both.         *)
C24_Witness ==
  /\ diffed
  /\ RemovedKeys = <<"id", "idses">>
  /\ AddedKeys = <<"ids", "idx">>
  /\ Eligible("id", "idx")
  /\ Eligible("idses", "ids")
  /\ ~Eligible("idses", "idx")
  /\ PairedWith("id") = {"ids"}
  /\ PairedWith("idses") = {}
  /\ \E i \in 1..Len(changes) :
       changes[i].type = "field_removed" /\ changes[i].path = "idses"

---------------------------------------------------------------------------
(* The pairs of nodes diffSchemas compares below x and y at path, x and y  *)
(* included, with the path of each                                         *)
ComparedPairs(x, y, path) ==
  {[before |-> x, after |-> y, path |-> path]}
    \cup (IF x.type = "object" /\ y.type = "object"
            THEN UNION {ComparedPairs(PropOf(x.properties, key), PropOf(y.properties, key),
                                      FieldPath(path, key)) :
                        key \in Keys(x) \cap Keys(y)}
            ELSE {})
    \cup (IF x.type = "array" /\ y.type = "array" /\ x.items # None /\ y.items # None
            THEN ComparedPairs(x.items[1], y.items[1],
                               IF path = "" THEN "[]" ELSE path \o "[]")
            ELSE {})

(* The changes at the level of the pair itself, of one type *)
OwnLevel(pair, type) ==
  {i \in 1..Len(changes) :
     changes[i].path = PathOrRoot(pair.path) /\ changes[i].type = type}

(* The changes about what lies below the pair *)
BelowLevel(pair) ==
  {i \in 1..Len(changes) :
     changes[i].path \in SubPaths(pair.before, pair.path) \cup SubPaths(pair.after, pair.path)}

(* The place of a change among the changes of an object at pair.path *)
ObjectRank(pair, i) ==
  LET c == changes[i]
      direct == c.path \in {FieldPath(pair.path, key) :
                              key \in Keys(pair.before) \cup Keys(pair.after)}
  IN IF direct /\ c.type = "field_renamed" THEN 1
     ELSE IF direct /\ c.type = "field_removed" THEN 2
     ELSE IF direct /\ c.type = "field_added" THEN 3
     ELSE IF direct /\ c.type = "required_changed" /\ c.before = "required" THEN 4
     ELSE IF direct /\ c.type = "required_changed" /\ c.after = "required" THEN 5
     ELSE 6

(* C25: in the result of diffSchemas, for every pair of nodes compared the *)
(* nullable_changed of the pair precedes its format_changed and both       *)
(* precede every change below the pair; the changes below a pair of        *)
(* objects are its renames, then its removals, its additions, its fields   *)
(* turned optional, its fields turned required and last the changes of the *)
(* shared fields; and comparing the same nodes again gives the same list.  *)
C25_EmissionOrder ==
  diffed =>
    /\ \A pair \in ComparedPairs(a, b, "") :
         /\ \A i \in OwnLevel(pair, "nullable_changed") :
              \A j \in OwnLevel(pair, "format_changed") \cup BelowLevel(pair) : i < j
         /\ \A i \in OwnLevel(pair, "format_changed") :
              \A j \in BelowLevel(pair) : i < j
         /\ pair.before.type = "object" /\ pair.after.type = "object" =>
              \A i, j \in BelowLevel(pair) :
                i < j => ObjectRank(pair, i) <= ObjectRank(pair, j)
    /\ diffSchemasEffect(a, b).result = changes

(* C25 witness: one diff lists a rename, a removal, an addition, a field   *)
(* turned optional, a field turned required and then, for the shared       *)
(* fields, a nullable change before a format change of name and a nullable *)
(* change of item before the type change of item.id.                       *)
C25_Witness ==
  /\ diffed
  /\ Len(changes) = 9
  /\ [i \in 1..9 |-> <<changes[i].type, changes[i].path>>] =
       << <<"field_renamed", "id">>, <<"field_removed", "tag">>,
          <<"field_added", "extra">>, <<"required_changed", "item">>,
          <<"required_changed", "code">>, <<"nullable_changed", "name">>,
          <<"format_changed", "name">>, <<"nullable_changed", "item">>,
          <<"type_changed", "item.id">> >>
  /\ changes[4].after = "optional"
  /\ changes[5].after = "required"

---------------------------------------------------------------------------
(* The kinds of the items the samples showed in the arrays at pos *)
ItemKinds(seen, pos) == {o[2] : o \in {p \in seen : p[1] = Append(pos, "[]")}}

(* The positions at which the samples showed an array *)
ArrayPositions(seen) == {o[1] : o \in {p \in seen : p[2] = "array"}}

(* C26: an array node of a learned schema is homogeneous exactly when the  *)
(* items the samples showed at its position are of at most one kind, and   *)
(* never when its item schema is a union.  Items that are null are left    *)
(* out of the count, and nothing is required of the flag where leaving     *)
(* them out or counting them makes a difference.                           *)
C26_HomogeneousIffOneKind ==
  \A pos \in ArrayPositions(seenA) :
    \A n \in {m \in NodesAt(a, pos) : m.type = "array"} :
      LET kinds == ItemKinds(seenA, pos)
      IN /\ Cardinality(kinds \ {"null"}) >= 2 => n.homogeneous # "true"
         /\ Cardinality(kinds) <= 1 => n.homogeneous = "true"
         /\ (n.items # None /\ n.items[1].oneOf # None) => n.homogeneous # "true"

---------------------------------------------------------------------------
(* C27: no union node of a learned schema has two alternatives of the same *)
(* kind: candidates of one kind that differ in their format are collapsed  *)
(* to one node of that kind.                                               *)
C27_UnionCollapsesByKind ==
  \A n \in AllNodes(a) \cup AllNodes(b) :
    n.oneOf # None =>
      \A i, j \in 1..Len(n.oneOf[1]) :
        n.oneOf[1][i].type = n.oneOf[1][j].type => i = j

---------------------------------------------------------------------------
(* The kinds a node stands for: its own, or those of its alternatives *)
KindsOf(n) ==
  {n.type} \cup (IF n.oneOf = None THEN {}
                 ELSE {n.oneOf[1][i].type : i \in 1..Len(n.oneOf[1])})

(* C28: every kind other than null and unknown that a sample folded into   *)
(* a showed at a position is, in a, the kind of a node at that position or *)
(* of one of its union alternatives.                                       *)
C28_KindsNeverForgotten ==
  \A o \in seenA :
    o[2] \notin {"null", "unknown"} =>
      \E n \in NodesAt(a, o[1]) : o[2] \in KindsOf(n)

---------------------------------------------------------------------------
(* C29: a check(key, data) of a key that, since the store was empty, was   *)
(* fed by learn(key, data) calls only, one or more and all with the same   *)
(* data, reports no change.                                                *)
C29_RelearnNoDrift ==
  [][
    \A key \in GuardKeys : \A data \in GuardValues :
      ( /\ call'.op = "check"
        /\ call'.key = key
        /\ call'.data = data
        /\ callsLeft' = callsLeft - 1
        /\ learnedOnly[sanitizeKey(key)]
        /\ Len(fed[sanitizeKey(key)]) >= 1
        /\ \A i \in 1..Len(fed[sanitizeKey(key)]) : fed[sanitizeKey(key)][i] = data )
      => report'[1].changes = <<>>
  ]_vars

---------------------------------------------------------------------------
(* C30: when no learn call is in flight, the latest snapshot of every key  *)
(* learned since the store was empty counts one sample for each learn call *)
(* made for it and its schema is the fold of the samples of all of them,   *)
(* in the order they were saved: no call's save is undone by another's.    *)
C30_NoLostUpdate ==
  (\A p \in Learners : inflight[p].pc = "idle") =>
    \A key \in GuardKeys :
      LET samples == fed[sanitizeKey(key)]
      IN Len(samples) >= 1 =>
           /\ load(store, key) # None
           /\ load(store, key)[1].sampleCount = Len(samples)
           /\ load(store, key)[1].schema = foldLearned(samples)

=============================================================================
